---- MODULE Spec2Model ----
(***************************************************************************)
(* A model of the verify-and-retry control loop of project_translator:     *)
(* the retry orchestrator, the test executor, the iterative (MCP) loop,    *)
(* the file operations tool, the scenario runner and request executor and  *)
(* the batch response parser.  Each component has its own specification;   *)
(* the variables of the other components stay at their initial values.     *)
(***************************************************************************)
EXTENDS Integers, Sequences, FiniteSets, TLC

(***************************************************************************)
(* Bounds of the model.                                                    *)
(***************************************************************************)
\* the largest max_retries a run is configured with
MaxRetriesBound == 2
\* the largest max_iterations of the iterative loop
MaxIterationsBound == 2
\* the most messages in one LLM response
MaxResponseLen == 2
\* the most components in a path argument
MaxPathLen == 2
\* the most file operations in one run of the file model
MaxFileOps == 1
\* the most items in a list the service answers with
MaxItems == 2
\* the most scenarios of a test suite and the most steps of a scenario
MaxScenarios == 2
MaxSteps == 2
\* the most file blocks in a batch response
MaxBlocks == 2
\* the most characters in a file content that is unescaped
MaxContentLen == 3
\* the most parts of an error text that is analyzed
MaxPhrases == 2
\* the most parts of a source path, the most directories between the source
\* directory and a file, the most files of a source tree
MaxRootParts == 2
MaxDepth == 1
MaxTreeFiles == 2

\* the most translated files of a parsed LLM response
MaxTranslatedFiles == 1

\* the readiness poll: the parameter timeout, the argument of time.sleep and
\* the timeout of a health request, in seconds
WaitTimeout == 60
SleepInterval == 2
RequestTimeout == 5

VARIABLES
    \* RetryMechanism (translation/retry_mechanism.py)
    max_retries,        \* self.max_retries
    test_cases_path,    \* TRUE iff self.test_cases_path is set
    attempt,            \* the local attempt of translate_with_retry
    retry_attempts,     \* self.retry_attempts, a sequence of RetryAttempt
    overall_success,    \* the local overall_success
    rm_pc,              \* "loop" | "final" | "done" | "raised"
    rm_sent,            \* the requests handed to the LLM provider: attempt and instructions
    rm_executed,        \* the attempts for which a TestExecutor ran execute_full_test
    rm_result,          \* the dictionary translate_with_retry returns, or NoResult
    translation_result, \* the local translation_result of the last attempt, or NoResult
    \* TestExecutor (translation/test_executor.py)
    ex_pc,              \* "validate" | "build" | "start" | "test" | "shutdown" | "done" | "raised"
    ex_calls,           \* the methods and scripts invoked so far, in order
    ex_build,           \* <<build_success, build_errors>>
    ex_service,         \* <<service_success, service_errors>>
    ex_tests,           \* <<test_success, test_errors, test_results>>
    ex_shutdown,        \* the outcome of the shutdown script, "none" before it ran
    ex_start,           \* how start_service's script and health poll ended, once it ran
    ex_setup,           \* what is missing and which scripts lack the x bit, once validated
    ex_result,          \* the TestExecutionResult returned, or NoResult
    ex_built,           \* how the script of build_project ended, "none" before it ran
    ex_runner,          \* the ServiceManager methods the TestRunner invoked before its first step
    \* MCPProjectTranslator (translation/mcp_translator.py)
    max_iterations,         \* the parameter max_iterations
    iteration,              \* the local iteration of _run_translation_loop
    conversation_history,   \* self.mcp_protocol.conversation_history
    last_sent,              \* the history as passed to the last send_message
    llm_sends,              \* the number of send_message calls
    next_id,                \* the next id the provider gives a tool call
    mcp_pc,                 \* "start" | "loop" | "done"
    mcp_result,             \* the dictionary _run_translation_loop returns, or NoResult
    \* the filesystem under FileOperationsTool and the translators' writers
    fs_files,           \* the resolved paths that are regular files
    fs_dirs,            \* the resolved paths that are directories
    fs_access,          \* the reads and writes done: records [op, path]
    fs_last,            \* the last operation: [op, arg, outcome], or NoResult
    fs_ops,             \* the number of operations so far
    \* RequestExecutor._validate_response (core/request_executor.py)
    vr_step,            \* the TestStep
    vr_response,        \* the response: [status_code, data]
    vr_result,          \* the validation result returned, or NoResult
    \* TestRunner and RequestExecutor.execute_request (core/test_runner.py)
    n_scenarios,        \* len(scenarios)
    scenario,           \* the index i of the scenario being run, 0 before the first
    steps_done,         \* the steps of this scenario executed so far
    global_saved_data,  \* the local global_saved_data of run_tests
    saved_data,         \* the local saved_data of run_scenario: [alias, data]
    saved_log,          \* the values saved in this run, last value per key
    tr_last,            \* the last step executed, or NoResult
    tr_pc,              \* "run" | "scenario" | "done"
    \* BatchTranslationProtocol.parse_translation_response (protocols/batch.py)
    pr_blocks,          \* the file blocks the response text was written from
    response_text,      \* the argument response_text
    pr_result,          \* the translated files returned or the error raised, or NoResult
    \* BatchTranslationProtocol.process_file_content (protocols/batch.py)
    \* TestRunner.run_tests and run_scenario: the results (core/test_runner.py)
    su_pc,              \* "setup" | "run" | "scenario" | "done"
    su_scenarios,       \* the suite: the number of steps of each scenario
    su_i,               \* the index of the scenario being run, 0 before the first
    su_executed,        \* the numbers of the steps of this scenario executed, in order
    su_step_results,    \* the local step_results of run_scenario
    su_scenario_success,\* the local scenario_success of run_scenario
    su_last,            \* the step of this scenario last executed and how it ended, or NoResult
    su_returned,        \* what the last call of run_scenario returned, or NoResult
    su_scenario_results,\* the local scenario_results of run_tests, without step_results
    su_overall_success, \* the local overall_success of run_tests
    su_result,          \* the dictionary run_tests returns, or NoResult
    su_calls,           \* the methods of the ServiceManager run_tests invoked, in order
    \* RequestExecutor.execute_request on one step (core/request_executor.py)
    rq_step,            \* the TestStep: endpoint, body, rules, save_response_field
    rq_saved,           \* the argument saved_data before the call
    rq_response,        \* what the service answers, None for no response
    rq_result,          \* the body sent, saved_data afterwards and the result, or NoResult
    \* ErrorAnalyzer (translation/error_analyzer.py)
    an_input,           \* the arguments: an error text and a hint, or the result of a suite
    an_result,          \* the ErrorInfo or the list of ErrorInfo returned, or NoResult
    \* BatchTranslationProtocol (translation/protocols/batch.py)
    cf_source,          \* the parts of the argument source_path
    cf_tree,            \* the files below the source directory
    cf_result,          \* the request built from the files collected, or NoResult
    \* the setup on disk (translation/test_executor.py, core/test_runner.py)
    ps_disk,            \* the project directory, the test cases file and the scripts on disk
    ps_result,          \* what validate_setup and validate_paths made of it, or NoResult
    \* the readiness poll (translation/test_executor.py, core/service_manager.py)
    wt_pc,              \* "test" | "check" | "sleep" | "done" | "raised"
    wt_elapsed,         \* time.time() - start_time, in seconds
    wt_checks,          \* the health checks made
    wt_last,            \* how the last health check ended, "none" before the first
    wt_failed,          \* TRUE iff a health check ended in a RequestException
    wt_result,          \* the value returned, or NoResult
    ue_content,         \* the argument content
    ue_result           \* the string returned, or NoResult

retryVars == <<max_retries, test_cases_path, attempt, retry_attempts, overall_success,
               rm_pc, rm_sent, rm_executed, rm_result, translation_result>>
execVars == <<ex_pc, ex_calls, ex_build, ex_service, ex_tests, ex_shutdown, ex_start, ex_setup, ex_result,
              ex_runner, ex_built>>

mcpVars == <<max_iterations, iteration, conversation_history, last_sent, llm_sends,
             next_id, mcp_pc, mcp_result>>

fileVars == <<fs_files, fs_dirs, fs_access, fs_last, fs_ops>>

validateVars == <<vr_step, vr_response, vr_result>>

runnerVars == <<n_scenarios, scenario, steps_done, global_saved_data, saved_data,
                saved_log, tr_last, tr_pc>>

parseVars == <<pr_blocks, response_text, pr_result>>

unescapeVars == <<ue_content, ue_result>>
suiteVars == <<su_pc, su_scenarios, su_i, su_executed, su_step_results, su_scenario_success,
               su_last, su_returned, su_scenario_results, su_overall_success, su_result,
               su_calls>>

requestVars == <<rq_step, rq_saved, rq_response, rq_result>>
analyzeVars == <<an_input, an_result>>
collectVars == <<cf_source, cf_tree, cf_result>>
pathsVars == <<ps_disk, ps_result>>
waitVars == <<wt_pc, wt_elapsed, wt_checks, wt_last, wt_failed, wt_result>>

vars == <<retryVars, execVars, mcpVars, fileVars, validateVars, runnerVars, parseVars, unescapeVars, suiteVars, requestVars, analyzeVars, collectVars, pathsVars, waitVars>>

NoResult == [none |-> TRUE]

(***************************************************************************)
(* TestExecutor: the outcomes of the external world.                       *)
(***************************************************************************)
\* what validate_setup can find missing
SetupItems == {"project", "test_cases", "start.sh", "shutdown.sh"}
\* a subprocess.run of a script: exit 0, exit # 0, TimeoutExpired, another exception
ScriptOutcomes == {"ok", "nonzero", "timeout", "exception"}
\* _wait_for_service: a 200 before the timeout, no 200 before it, an exception
\* other than RequestException (which start_service catches)
ReadyOutcomes == {"ready", "not_ready", "exception"}
\* TestRunner.run_tests as seen by TestExecutor.run_tests: success, a result
\* with failed scenarios, a result with only an "error" key, an exception
TestOutcomes == {"passed", "failed", "error", "exception"}

\* the two scripts _find_script looks up
Scripts == {"start.sh", "shutdown.sh"}
\* the project on disk: the items that do not exist, and the scripts that
\* exist without the executable bit
NoSetup == [none |-> TRUE]
Setups ==
    {su \in [missing : SUBSET SetupItems, not_executable : SUBSET Scripts] :
        su.missing \cap su.not_executable = {}}
\* subprocess.run(["./<script>"]): a file without the executable bit makes it
\* raise PermissionError, an executable one can end in any of the outcomes
RunOutcomes(script, setup) ==
    IF script \in setup.not_executable THEN {"exception"} ELSE ScriptOutcomes

\* validate_setup: one error per missing item, in the order of the checks
SetupErrors(missing) ==
    LET e1 == IF "project" \in missing THEN <<"project path missing">> ELSE <<>>
        e2 == IF "test_cases" \in missing THEN <<"test cases missing">> ELSE <<>>
        e3 == IF "start.sh" \in missing THEN <<"start.sh not found">> ELSE <<>>
        e4 == IF "shutdown.sh" \in missing THEN <<"shutdown.sh not found">> ELSE <<>>
    IN  e1 \o e2 \o e3 \o e4

validate_setup(missing) == <<SetupErrors(missing) = <<>>, SetupErrors(missing)>>

\* build_project with TimeoutExpired left to the handler of Exception
BuildProjectWithoutTimeoutHandler(o) ==
    CASE o = "ok" -> <<TRUE, <<>>>>
      [] o = "nonzero" -> <<FALSE, <<"Build failed with return code">>>>
      [] OTHER -> <<FALSE, <<"Build failed with exception">>>>

\* build_project: (success, error_messages)
build_project(o) ==
    CASE o = "ok" -> <<TRUE, <<>>>>
      [] o = "nonzero" -> <<FALSE, <<"Build failed with return code">>>>
      [] o = "timeout" -> <<FALSE, <<"Build timed out after 5 minutes">>>>
      [] OTHER -> <<FALSE, <<"Build failed with exception">>>>

\* start_service: (success, error_messages); the readiness poll runs only
\* after the script exited with 0
NoStart == [none |-> TRUE]
StartServiceIgnoringReadiness(o, ready) ==
    IF o = "ok" /\ ready # "exception" THEN <<TRUE, <<>>>> ELSE <<FALSE, <<"Service startup failed">>>>
start_service(o, ready) ==
    CASE o = "nonzero" -> <<FALSE, <<"Service startup failed with return code">>>>
      [] o = "timeout" -> <<FALSE, <<"Service startup timed out">>>>
      [] o = "exception" -> <<FALSE, <<"Service startup failed">>>>
      [] OTHER ->
            CASE ready = "ready" -> <<TRUE, <<>>>>
              [] ready = "not_ready" -> <<FALSE, <<"Service failed to become ready within timeout">>>>
              [] OTHER -> <<FALSE, <<"Service startup failed">>>>

\* TestExecutor.run_tests: (success, error_messages, test_results); every
\* exception of the runner is caught and reported as a failure
run_tests(o) ==
    CASE o = "passed" -> <<TRUE, <<>>, "passed">>
      [] o = "failed" -> <<FALSE, <<"Some tests failed">>, "failed">>
      [] o = "error" -> <<FALSE, <<"Some tests failed: error">>, "error">>
      [] OTHER -> <<FALSE, <<"Test execution failed">>, "none">>

\* whether an exception of the runner leaves TestExecutor.run_tests
RunTestsRaises(o) == FALSE

\* overall_success = build_success and service_success and test_success
OverallSuccessOfTestsOnly(build_success, service_success, test_success) == test_success
OverallSuccess(build_success, service_success, test_success) ==
    build_success /\ service_success /\ test_success

TestExecutionResult(b, s, t) ==
    [success |-> OverallSuccess(b[1], s[1], t[1]),
     build_success |-> b[1], service_startup_success |-> s[1], test_success |-> t[1],
     build_errors |-> b[2], service_errors |-> s[2], test_errors |-> t[2],
     test_results |-> t[3]]

\* the result of the validation-failure path of execute_full_test
SetupFailureResult(errors) ==
    [success |-> FALSE,
     build_success |-> FALSE, service_startup_success |-> FALSE, test_success |-> FALSE,
     build_errors |-> errors, service_errors |-> <<>>, test_errors |-> <<>>,
     test_results |-> "none"]

\* the tests' triple before run_tests is called, and when it is not called
NoTests == <<FALSE, <<>>, "none">>
TestsSkipped == <<FALSE, <<"Cannot run tests - service failed to start">>, "none">>

\* shutdown_service: every outcome of the script ends in "return True", the
\* exceptions of subprocess.run (TimeoutExpired included) are caught
ShutdownServiceRaisesOnException(o) == [returned |-> o # "exception", raises |-> o = "exception"]
shutdown_service(o) == [returned |-> TRUE, raises |-> FALSE]

\* after start_service: run the tests only if the service started; the
\* shutdown follows on both branches
AfterStartLeaky(service_success) == IF service_success THEN "test" ELSE "done"
AfterStart(service_success) == IF service_success THEN "test" ELSE "shutdown"

(***************************************************************************)
(* TestExecutor.execute_full_test, one action per stage.                   *)
(***************************************************************************)
ExecFrame == UNCHANGED <<retryVars, mcpVars, fileVars, validateVars, runnerVars, parseVars, unescapeVars, suiteVars, requestVars, analyzeVars, collectVars, pathsVars, waitVars>>

\* TestRunner.run_tests (core/test_runner.py) as TestExecutor.run_tests calls it
\* what stops run_tests before the first scenario: validate_paths,
\* load_test_cases, start_service, wait_for_service
SetupFailures == {"paths", "load", "start", "ready"}

\* the methods of the ServiceManager run_tests invokes before the scenario
\* loop, by what stops it there ("none": nothing does)
SetupCalls(failure) ==
    CASE failure \in {"paths", "load"} -> <<>>
      [] failure = "start" -> <<"start_service">>
      [] failure = "ready" -> <<"start_service", "wait_for_service", "shutdown_service">>
      [] OTHER -> <<"start_service", "wait_for_service">>

\* the methods of its ServiceManager the runner invokes before its first
\* scenario step, by how TestExecutor.run_tests sees it end: "passed" and
\* "failed" come from the scenario loop, "error" from an early return; an
\* exception can come from any place
RunnerSetupCalls(o) ==
    CASE o \in {"passed", "failed"} -> {SetupCalls("none")}
      [] o = "error" -> {SetupCalls(f) : f \in SetupFailures}
      [] OTHER -> {SetupCalls(f) : f \in SetupFailures \cup {"none"}}

ExecInit ==
    /\ ex_pc = "validate"
    /\ ex_calls = <<>>
    /\ ex_build = <<FALSE, <<>>>>
    /\ ex_service = <<FALSE, <<>>>>
    /\ ex_tests = NoTests
    /\ ex_shutdown = "none"
    /\ ex_start = NoStart
    /\ ex_setup = NoSetup
    /\ ex_result = NoResult
    /\ ex_runner = <<>>
    /\ ex_built = "none"

ExecValidate ==
    /\ ex_pc = "validate"
    /\ \E setup \in Setups :
          LET v == validate_setup(setup.missing) IN
          /\ ex_setup' = setup
          /\ ex_calls' = Append(ex_calls, "validate_setup")
          /\ IF v[1]
             THEN /\ ex_pc' = "build"
                  /\ ex_result' = ex_result
             ELSE /\ ex_pc' = "done"
                  /\ ex_result' = SetupFailureResult(v[2])
    /\ UNCHANGED <<ex_build, ex_service, ex_tests, ex_shutdown, ex_start, ex_runner, ex_built>>
    /\ ExecFrame

ExecBuild ==
    /\ ex_pc = "build"
    /\ \E o \in RunOutcomes("start.sh", ex_setup) :
          /\ ex_build' = build_project(o)
          /\ ex_built' = o
          /\ ex_calls' = ex_calls \o <<"build_project", "start.sh">>
    /\ ex_pc' = "start"
    /\ UNCHANGED <<ex_service, ex_tests, ex_shutdown, ex_start, ex_setup, ex_result, ex_runner>>
    /\ ExecFrame

ExecStart ==
    /\ ex_pc = "start"
    /\ \E o \in RunOutcomes("start.sh", ex_setup), ready \in ReadyOutcomes :
          LET s == start_service(o, ready) IN
          /\ ex_service' = s
          /\ ex_start' = [script |-> o, health |-> IF o = "ok" THEN ready ELSE "none"]
          /\ ex_calls' = ex_calls \o <<"start_service", "start.sh">>
                           \o (IF o = "ok" THEN <<"health">> ELSE <<>>)
          /\ ex_pc' = AfterStart(s[1])
          /\ ex_tests' = IF s[1] THEN ex_tests ELSE TestsSkipped
    /\ UNCHANGED <<ex_build, ex_shutdown, ex_setup, ex_result, ex_runner, ex_built>>
    /\ ExecFrame

ExecTest ==
    /\ ex_pc = "test"
    /\ \E o \in TestOutcomes :
          /\ ex_calls' = Append(ex_calls, "run_tests")
          /\ ex_runner' \in RunnerSetupCalls(o)
          /\ IF o = "exception" /\ RunTestsRaises(o)
             THEN /\ ex_pc' = "raised"
                  /\ ex_tests' = ex_tests
             ELSE /\ ex_pc' = "shutdown"
                  /\ ex_tests' = run_tests(o)
    /\ UNCHANGED <<ex_build, ex_service, ex_shutdown, ex_start, ex_setup, ex_result, ex_built>>
    /\ ExecFrame

\* shutdown_service swallows every outcome of the script; then the result is
\* assembled
ExecShutdown ==
    /\ ex_pc = "shutdown"
    /\ \E o \in RunOutcomes("shutdown.sh", ex_setup) :
          /\ ex_shutdown' = o
          /\ IF shutdown_service(o).raises
             THEN /\ ex_pc' = "raised"
                  /\ ex_result' = ex_result
             ELSE /\ ex_pc' = "done"
                  /\ ex_result' = TestExecutionResult(ex_build, ex_service, ex_tests)
    /\ ex_calls' = ex_calls \o <<"shutdown_service", "shutdown.sh">>
    /\ UNCHANGED <<ex_start, ex_setup, ex_runner, ex_built>>
    /\ UNCHANGED <<ex_build, ex_service, ex_tests>>
    /\ ExecFrame

ExecNext == ExecValidate \/ ExecBuild \/ ExecStart \/ ExecTest \/ ExecShutdown

\* the whole of execute_full_test on given outcomes
execute_full_test(missing, bo, so, ready, to) ==
    LET v == validate_setup(missing)
        b == build_project(bo)
        s == start_service(so, ready)
        t == IF s[1] THEN run_tests(to) ELSE TestsSkipped
    IN  IF v[1] THEN TestExecutionResult(b, s, t) ELSE SetupFailureResult(v[2])

(***************************************************************************)
(* RetryMechanism.                                                         *)
(***************************************************************************)
\* the setups of the output project a retry run meets
SetupCases == {{}, {"start.sh"}, {"project", "shutdown.sh"}}

\* every TestExecutionResult execute_full_test returns on these setups
FullTestResults ==
    {execute_full_test(m, bo, so, r, to) :
        m \in SetupCases, bo \in ScriptOutcomes, so \in ScriptOutcomes,
        r \in ReadyOutcomes, to \in TestOutcomes}

\* _test_translated_project without a test-cases path
TrivialTestResult ==
    [success |-> TRUE,
     build_success |-> TRUE, service_startup_success |-> TRUE, test_success |-> TRUE,
     build_errors |-> <<>>, service_errors |-> <<>>, test_errors |-> <<>>,
     test_results |-> "none"]

\* _test_translated_project when the executor raises
TestExceptionResult ==
    [success |-> FALSE,
     build_success |-> FALSE, service_startup_success |-> FALSE, test_success |-> FALSE,
     build_errors |-> <<"Test execution failed">>, service_errors |-> <<>>,
     test_errors |-> <<>>, test_results |-> "none"]

\* the results _test_translated_project can return
TestTranslatedProjectAlwaysExecutes(has_path) == FullTestResults \cup {TestExceptionResult}
_test_translated_project(has_path) ==
    IF ~has_path THEN {TrivialTestResult}
    ELSE FullTestResults \cup {TestExceptionResult}

\* one ErrorInfo per message of a list, tagged with the list it comes from
ErrorsOf(msgs, tag) == [i \in 1..Len(msgs) |-> tag]

\* analyze_test_failure on the runner's result: one ErrorInfo per failed
\* step (a failed suite is modelled with one failed step); a result that
\* holds only an "error" key has no step results
analyze_test_failure(test_results) ==
    IF test_results = "failed" THEN <<"test_failure">> ELSE <<>>

\* _analyze_test_result without its three loops over the error lists
AnalyzeTestResultOfRunnerOnly(r) ==
    IF r.test_results # "none" THEN analyze_test_failure(r.test_results) ELSE <<>>

\* _analyze_test_result: the ErrorInfos of an attempt, in order
_analyze_test_result(r) ==
    ErrorsOf(r.build_errors, "build") \o ErrorsOf(r.service_errors, "service")
        \o ErrorsOf(r.test_errors, "test")
        \o (IF r.test_results # "none" THEN analyze_test_failure(r.test_results) ELSE <<>>)

\* a RetryAttempt; translated is translation_result["success"]
RetryAttempt(n, success, errors, translated) ==
    [attempt_number |-> n, success |-> success, errors |-> errors, translated |-> translated]

\* the errors recorded for an attempt whose translation failed: one
\* ErrorInfo of type UNKNOWN_ERROR
TranslationFailedNoErrors == <<>>
TranslationFailedErrors == <<"unknown_error">>

\* _write_translated_files: the number of files written; a write that
\* raises is logged and skipped, so any number up to the parsed ones
_write_translated_files(translated_files) == 0..translated_files

\* _perform_translation when nothing raised: the dictionary it returns
_perform_translation(a) ==
    {[success |-> TRUE, files_translated |-> n, files_written |-> w, attempt |-> a] :
        <<n, w>> \in {<<n, w>> \in (0..MaxTranslatedFiles) \X (0..MaxTranslatedFiles) :
                        w \in _write_translated_files(n)}}

\* _perform_translation when a stage raised
TranslationFailure(a) == [success |-> FALSE, attempt |-> a]

\* where _perform_translation can raise: create_translation_request,
\* _send_batch_request, parse_translation_response
FailureStages == {"request", "send", "parse"}

\* whether an exception raised in a stage of an attempt leaves
\* translate_with_retry: _perform_translation and _test_translated_project
\* each catch Exception and return a failure value
PropagatesFromSend(stage) == stage = "send"
Propagates(stage) == FALSE

\* whether _test_translated_project constructs and runs a TestExecutor
InvokesExecutor(has_path) == has_path

\* ErrorAnalyzer.generate_error_feedback: a fixed text for no errors, else a
\* header, one numbered entry per error in list order, and a footer
generate_error_feedback(errors) ==
    IF errors = <<>> THEN <<[line |-> "No errors detected."]>>
    ELSE <<[line |-> "TRANSLATION ERRORS DETECTED:"]>>
            \o [i \in 1..Len(errors) |-> [error |-> i, type |-> errors[i]]]
            \o <<[line |-> "Please fix these errors and provide an updated translation."]>>

\* all_errors of _generate_error_feedback: the errors of the attempts so
\* far, attempt after attempt
RECURSIVE AllErrors(_)
AllErrors(attempts) ==
    IF attempts = <<>> THEN <<>>
    ELSE AllErrors(SubSeq(attempts, 1, Len(attempts) - 1)) \o attempts[Len(attempts)].errors

\* _generate_error_feedback
FeedbackOfLastAttempt(attempts) ==
    IF attempts = <<>> THEN <<[line |-> "No previous attempts to analyze."]>>
    ELSE generate_error_feedback(attempts[Len(attempts)].errors)
_generate_error_feedback(attempts) ==
    IF attempts = <<>> THEN <<[line |-> "No previous attempts to analyze."]>>
    ELSE generate_error_feedback(AllErrors(attempts))

\* the translation_instructions of the request of an attempt: those of
\* create_translation_request, extended by _add_retry_context on a retry
NoFeedback == <<>>
_add_retry_context(a, attempts) ==
    [base |-> "translation_instructions", retry_attempt |-> a,
     feedback |-> _generate_error_feedback(attempts)]
Instructions(a, attempts) ==
    IF a > 1 THEN _add_retry_context(a, attempts)
    ELSE [base |-> "translation_instructions", retry_attempt |-> 0, feedback |-> NoFeedback]

\* the breaks of the loop body: on success, and when the attempts are used up
BreaksLoopOnlyWhenExhausted(success, a, R) == a > R
BreaksLoop(success, a, R) == success \/ a > R

\* where the loop goes after attempt a: a break, or the while condition
AfterAttempt(success, a, R) ==
    IF BreaksLoop(success, a, R) THEN "final"
    ELSE IF a <= R THEN "loop" ELSE "final"

_create_final_result(success, attempts) ==
    [success |-> success, attempts |-> Len(attempts),
     retry_attempts |-> [i \in 1..Len(attempts) |->
                            [attempt |-> attempts[i].attempt_number,
                             success |-> attempts[i].success,
                             error_count |-> Len(attempts[i].errors)]]]

RetryFrame == UNCHANGED <<execVars, mcpVars, fileVars, validateVars, runnerVars, parseVars, unescapeVars, suiteVars, requestVars, analyzeVars, collectVars, pathsVars, waitVars>>

RetryInit ==
    /\ max_retries \in 0..MaxRetriesBound
    /\ test_cases_path \in BOOLEAN
    /\ attempt = 0
    /\ retry_attempts = <<>>
    /\ overall_success = FALSE
    /\ rm_pc = "loop"
    /\ rm_sent = <<>>
    /\ rm_executed = <<>>
    /\ rm_result = NoResult
    /\ translation_result = NoResult

RetryIdle ==
    /\ max_retries = 0
    /\ test_cases_path = FALSE
    /\ attempt = 0
    /\ retry_attempts = <<>>
    /\ overall_success = FALSE
    /\ rm_pc = "idle"
    /\ rm_sent = <<>>
    /\ rm_executed = <<>>
    /\ rm_result = NoResult
    /\ translation_result = NoResult

\* an attempt whose translation raised (request building, the LLM call or
\* the parsing): a failed RetryAttempt with one synthetic error, no test
RetryTranslationFailed ==
    /\ rm_pc = "loop"
    /\ attempt <= max_retries
    /\ attempt' = attempt + 1
    /\ \E stage \in FailureStages :
          /\ rm_sent' = IF stage = "request" THEN rm_sent
                        ELSE Append(rm_sent, [attempt |-> attempt + 1,
                                              instructions |-> Instructions(attempt + 1, retry_attempts)])
          /\ IF Propagates(stage)
             THEN /\ rm_pc' = "raised"
                  /\ retry_attempts' = retry_attempts
             ELSE /\ rm_pc' = AfterAttempt(FALSE, attempt + 1, max_retries)
                  /\ retry_attempts' = Append(retry_attempts,
                         RetryAttempt(attempt + 1, FALSE, TranslationFailedErrors, FALSE))
    /\ translation_result' = TranslationFailure(attempt + 1)
    /\ UNCHANGED <<max_retries, test_cases_path, overall_success, rm_executed, rm_result>>
    /\ RetryFrame

\* an attempt whose translation returned: test it, analyse, append
RetryTested ==
    /\ rm_pc = "loop"
    /\ attempt <= max_retries
    /\ translation_result' \in _perform_translation(attempt + 1)
    /\ \E r \in _test_translated_project(test_cases_path) :
          /\ rm_sent' = Append(rm_sent, [attempt |-> attempt + 1,
                                         instructions |-> Instructions(attempt + 1, retry_attempts)])
          /\ rm_executed' = IF InvokesExecutor(test_cases_path)
                            THEN Append(rm_executed, attempt + 1) ELSE rm_executed
          /\ IF r = TestExceptionResult /\ Propagates("verify")
             THEN /\ rm_pc' = "raised"
                  /\ UNCHANGED <<retry_attempts, overall_success>>
             ELSE /\ retry_attempts' = Append(retry_attempts,
                                              RetryAttempt(attempt + 1, r.success,
                                                           _analyze_test_result(r), TRUE))
                  /\ overall_success' = r.success
                  /\ rm_pc' = AfterAttempt(r.success, attempt + 1, max_retries)
    /\ attempt' = attempt + 1
    /\ UNCHANGED <<max_retries, test_cases_path, rm_result>>
    /\ RetryFrame

RetryFinish ==
    /\ rm_pc = "final"
    /\ rm_result' = _create_final_result(overall_success, retry_attempts)
    /\ rm_pc' = "done"
    /\ UNCHANGED <<max_retries, test_cases_path, attempt, retry_attempts, overall_success,
                   rm_sent, rm_executed, translation_result>>
    /\ RetryFrame

RetryNext == RetryTranslationFailed \/ RetryTested \/ RetryFinish

ExecIdle ==
    /\ ex_pc = "idle"
    /\ ex_calls = <<>>
    /\ ex_build = <<FALSE, <<>>>>
    /\ ex_service = <<FALSE, <<>>>>
    /\ ex_tests = NoTests
    /\ ex_shutdown = "none"
    /\ ex_start = NoStart
    /\ ex_setup = NoSetup
    /\ ex_result = NoResult
    /\ ex_runner = <<>>
    /\ ex_built = "none"

(***************************************************************************)
(* MCPProjectTranslator: the iterative loop.                               *)
(***************************************************************************)
\* the dispatch table of _process_tool_calls
ToolNames == {"get_file", "write_file", "list_directory", "ask_question",
              "translation_complete"}

\* the messages the LLM of the model answers with: text, or a tool call
\* whose dispatch returns or raises (bad arguments JSON, a missing argument)
ResponseKinds ==
    {[role |-> "assistant", name |-> "", bad_args |-> FALSE],
     [role |-> "function_call", name |-> "get_file", bad_args |-> FALSE],
     [role |-> "function_call", name |-> "write_file", bad_args |-> TRUE],
     [role |-> "function_call", name |-> "translation_complete", bad_args |-> FALSE]}

Responses == UNION {[1..n -> ResponseKinds] : n \in 0..MaxResponseLen}

MCPMessage(role, id, name, bad_args, error) ==
    [role |-> role, id |-> id, name |-> name, bad_args |-> bad_args, error |-> error]

SystemMessage == MCPMessage("system", 0, "", FALSE, FALSE)
\* the message the loop appends when an iteration raised
ErrorMessage == MCPMessage("user", 0, "", FALSE, TRUE)

\* the provider's messages: every tool call carries an id of its own
WithIds(resp, first) ==
    [i \in 1..Len(resp) |->
        MCPMessage(resp[i].role,
                   IF resp[i].role = "function_call" THEN first + i - 1 ELSE 0,
                   resp[i].name, resp[i].bad_args, FALSE)]

\* the tool_result of one tool call: the handler's result, the unknown-tool
\* error, or the text of the exception the dispatch raised
ToolResultDroppedOnError(call) ==
    IF call.bad_args THEN <<>>
    ELSE <<MCPMessage("function_response", call.id, "", FALSE, call.name \notin ToolNames)>>
ToolResultWithoutError(call) ==
    <<MCPMessage("function_response", call.id, "", FALSE, call.name \notin ToolNames)>>
ToolResult(call) ==
    <<MCPMessage("function_response", call.id, "", FALSE,
                 call.bad_args \/ call.name \notin ToolNames)>>

\* _process_tool_calls: the results of the function_call messages, in order
RECURSIVE _process_tool_calls(_)
_process_tool_calls(msgs) ==
    IF msgs = <<>> THEN <<>>
    ELSE (IF Head(msgs).role = "function_call" THEN ToolResult(Head(msgs)) ELSE <<>>)
            \o _process_tool_calls(Tail(msgs))

\* _is_translation_complete, on the list it is given
_is_translation_complete(tool_calls) ==
    \E i \in 1..Len(tool_calls) :
        /\ tool_calls[i].role = "function_call"
        /\ tool_calls[i].name = "translation_complete"

\* the condition of the while loop of _run_translation_loop
WhileConditionInclusive(i, m) == i <= m
WhileCondition(i, m) == i < m

\* what _run_translation_loop returns when the while condition fails
LimitResult(i) ==
    [success |-> FALSE, iterations |-> i,
     error |-> "did not complete within max_iterations"]

\* what the exception handler of translate_project returns
FatalResult == [success |-> FALSE, error |-> "Translation failed"]

McpFrame == UNCHANGED <<retryVars, execVars, fileVars, validateVars, runnerVars, parseVars, unescapeVars, suiteVars, requestVars, analyzeVars, collectVars, pathsVars, waitVars>>

McpInit ==
    /\ max_iterations \in 0..MaxIterationsBound
    /\ iteration = 0
    /\ conversation_history = <<>>
    /\ last_sent = <<>>
    /\ llm_sends = 0
    /\ next_id = 1
    /\ mcp_pc = "start"
    /\ mcp_result = NoResult

McpIdle ==
    /\ max_iterations = 0
    /\ iteration = 0
    /\ conversation_history = <<>>
    /\ last_sent = <<>>
    /\ llm_sends = 0
    /\ next_id = 1
    /\ mcp_pc = "idle"
    /\ mcp_result = NoResult

\* translate_project up to the loop: an invalid provider configuration raises
\* and the handler returns the fatal result; else the system message opens
\* the conversation
McpStart ==
    /\ mcp_pc = "start"
    /\ \E valid \in BOOLEAN :
          IF valid
          THEN /\ conversation_history' = <<SystemMessage>>
               /\ mcp_pc' = "loop"
               /\ mcp_result' = mcp_result
          ELSE /\ conversation_history' = conversation_history
               /\ mcp_pc' = "done"
               /\ mcp_result' = FatalResult
    /\ UNCHANGED <<max_iterations, iteration, last_sent, llm_sends, next_id>>
    /\ McpFrame

\* an iteration whose send_message raised: the error is appended as a user
\* message and the loop goes on
McpSendFailed ==
    /\ mcp_pc = "loop"
    /\ WhileCondition(iteration, max_iterations)
    /\ iteration' = iteration + 1
    /\ last_sent' = conversation_history
    /\ llm_sends' = llm_sends + 1
    /\ conversation_history' = Append(conversation_history, ErrorMessage)
    /\ UNCHANGED <<max_iterations, next_id, mcp_pc, mcp_result>>
    /\ McpFrame

\* an iteration whose send_message returned: the response is appended, its
\* tool calls are dispatched, their results are appended, and the loop
\* returns if _is_translation_complete says so
McpIteration ==
    /\ mcp_pc = "loop"
    /\ WhileCondition(iteration, max_iterations)
    /\ \E resp \in Responses :
          LET msgs == WithIds(resp, next_id)
              tool_calls == _process_tool_calls(msgs)
          IN  /\ conversation_history' = conversation_history \o msgs \o tool_calls
              /\ next_id' = next_id + Len(resp)
              /\ IF _is_translation_complete(tool_calls)
                 THEN /\ mcp_pc' = "done"
                      /\ mcp_result' = [success |-> TRUE, iterations |-> iteration + 1,
                                        error |-> "none"]
                 ELSE /\ mcp_pc' = "loop"
                      /\ mcp_result' = mcp_result
    /\ iteration' = iteration + 1
    /\ last_sent' = conversation_history
    /\ llm_sends' = llm_sends + 1
    /\ UNCHANGED <<max_iterations>>
    /\ McpFrame

\* the while condition fails: the iteration budget is used up
McpExhausted ==
    /\ mcp_pc = "loop"
    /\ ~WhileCondition(iteration, max_iterations)
    /\ mcp_pc' = "done"
    /\ mcp_result' = LimitResult(iteration)
    /\ UNCHANGED <<max_iterations, iteration, conversation_history, last_sent,
                   llm_sends, next_id>>
    /\ McpFrame

McpNext == McpStart \/ McpSendFailed \/ McpIteration \/ McpExhausted

(***************************************************************************)
(* FileOperationsTool and the writers of the translated files.             *)
(* A resolved path is the sequence of its component names below "/"; a     *)
(* name is a sequence of characters, so that str(path) and startswith are  *)
(* computed character by character.                                        *)
(***************************************************************************)
\* the component ".."
DotDot == <<".", ".">>

\* the names of the modelled tree
NameS == <<"s">>
NameSx == <<"s", "x">>
NameO == <<"o">>
NameOx == <<"o", "x">>
NameE == <<"e">>
NameF == <<"f">>
NameL == <<"l">>
NameK == <<"k">>

\* self.source_path and self.output_path, resolved by __init__
source_path == <<NameS>>
output_path == <<NameO>>

\* the tree before the run: /s/f, /sx/f, /ox/f and /e/f are files; l is a
\* symbolic link to the sibling directory (/s/l to /sx, /o/l to /ox) and k
\* one to the directory /e
InitialDirs == {<<>>, <<NameS>>, <<NameSx>>, <<NameO>>, <<NameOx>>, <<NameE>>}
InitialFiles == {<<NameS, NameF>>, <<NameSx, NameF>>, <<NameOx, NameF>>, <<NameE, NameF>>}
Symlinks == {<<NameS, NameL>>, <<NameO, NameL>>, <<NameS, NameK>>, <<NameO, NameK>>}
SymlinkTarget(p) ==
    IF p = <<NameS, NameL>> THEN <<NameSx>>
    ELSE IF p = <<NameO, NameL>> THEN <<NameOx>>
    ELSE <<NameE>>

\* the path arguments: an optional leading "/" and up to MaxPathLen components
Components == {DotDot, NameF, NameL, NameK, NameSx}
PathArgs == [absolute : BOOLEAN,
             parts : UNION {[1..n -> Components] : n \in 0..MaxPathLen}]

\* file_path.lstrip('/') : the argument without its leading slashes
lstrip(arg) == [arg EXCEPT !.absolute = FALSE]

\* pathlib's root / arg : an absolute argument replaces the root
JoinPath(root, arg) == IF arg.absolute THEN arg.parts ELSE root \o arg.parts

\* the resolved paths visited while the components of rest are walked from
\* the resolved path acc: ".." drops the last name, a name is appended and a
\* symbolic link is replaced by its target
RECURSIVE Steps(_, _)
Steps(acc, rest) ==
    IF rest = <<>> THEN <<acc>>
    ELSE LET c == Head(rest)
             up == IF acc = <<>> THEN <<>> ELSE SubSeq(acc, 1, Len(acc) - 1)
             down == Append(acc, c)
             nxt == IF c = DotDot THEN up
                    ELSE IF down \in Symlinks THEN SymlinkTarget(down)
                    ELSE down
         IN <<acc>> \o Steps(nxt, Tail(rest))

\* Path.resolve()
resolve(full) == LET st == Steps(<<>>, full) IN st[Len(st)]

\* str(path) of a resolved path
RECURSIVE PathStr(_)
PathStr(p) ==
    IF p = <<>> THEN <<"/">>
    ELSE IF Len(p) = 1 THEN <<"/">> \o p[1]
    ELSE PathStr(SubSeq(p, 1, Len(p) - 1)) \o <<"/">> \o p[Len(p)]

\* str.startswith
startswith(str, prefix) ==
    /\ Len(prefix) <= Len(str)
    /\ SubSeq(str, 1, Len(prefix)) = prefix

\* the security check of get_file, write_file and list_directory
SecurityCheck(full, root) ==
    startswith(PathStr(resolve(full)), PathStr(resolve(root)))

\* Path.exists(): every component is taken from a directory and the last
\* path reached is there
exists(full, files, dirs) ==
    LET st == Steps(<<>>, full)
    IN /\ \A i \in 1..(Len(st) - 1) : st[i] \in dirs
       /\ st[Len(st)] \in files \cup dirs

\* Path.parent : the path without its last component
parent(full) == IF full = <<>> THEN <<>> ELSE SubSeq(full, 1, Len(full) - 1)

\* parent.mkdir(parents=True, exist_ok=True): whether it succeeds (no path
\* on the way is a regular file) and the directories there afterwards
mkdir(dir, files, dirs) ==
    LET st == Steps(<<>>, dir)
    IN IF \E i \in 1..Len(st) : st[i] \in files
       THEN [ok |-> FALSE, dirs |-> dirs]
       ELSE [ok |-> TRUE, dirs |-> dirs \cup {st[i] : i \in 1..Len(st)}]

\* open(full, 'w') and f.write after the mkdir: the new filesystem and the
\* outcome
WriteAt(full, files, dirs) ==
    LET made == mkdir(parent(full), files, dirs)
        target == resolve(full)
    IN IF ~made.ok THEN [outcome |-> "error", files |-> files, dirs |-> dirs]
       ELSE IF target \in made.dirs
           THEN [outcome |-> "error", files |-> files, dirs |-> made.dirs]
       ELSE [outcome |-> "written", files |-> files \cup {target}, dirs |-> made.dirs]

ToolOps == {"get_file", "write_file", "list_directory"}
WriterOps == {"_write_translated_files", "translate_project"}

Access(op, full) == [op |-> op, path |-> resolve(full)]
Unchanged(outcome, files, dirs) ==
    [outcome |-> outcome, access |-> {}, files |-> files, dirs |-> dirs]

\* get_file: the outcome, the access done and the filesystem afterwards
get_file(file_path, files, dirs) ==
    LET full_path == JoinPath(source_path, lstrip(file_path))
    IN IF ~SecurityCheck(full_path, source_path)
           THEN Unchanged("access_denied", files, dirs)
       ELSE IF ~exists(full_path, files, dirs)
           THEN Unchanged("not_found", files, dirs)
       ELSE IF resolve(full_path) \notin files
           THEN Unchanged("not_a_file", files, dirs)
       ELSE [outcome |-> "read", access |-> {Access("get_file", full_path)},
             files |-> files, dirs |-> dirs]

\* list_directory
list_directory(directory_path, files, dirs) ==
    LET full_path == IF directory_path.absolute /\ directory_path.parts = <<>>
                     THEN source_path
                     ELSE JoinPath(source_path, lstrip(directory_path))
    IN IF ~SecurityCheck(full_path, source_path)
           THEN Unchanged("access_denied", files, dirs)
       ELSE IF ~exists(full_path, files, dirs)
           THEN Unchanged("not_found", files, dirs)
       ELSE IF resolve(full_path) \notin dirs
           THEN Unchanged("not_a_directory", files, dirs)
       ELSE [outcome |-> "listed", access |-> {Access("list_directory", full_path)},
             files |-> files, dirs |-> dirs]

\* write_file
write_file(file_path, files, dirs) ==
    LET full_path == JoinPath(output_path, lstrip(file_path))
        w == WriteAt(full_path, files, dirs)
    IN IF ~SecurityCheck(full_path, output_path)
           THEN Unchanged("access_denied", files, dirs)
       ELSE [outcome |-> w.outcome,
             access |-> IF w.outcome = "written"
                        THEN {Access("write_file", full_path)} ELSE {},
             files |-> w.files, dirs |-> w.dirs]

\* one turn of the loop over batch_response.translated_files, in
\* RetryMechanism._write_translated_files and in
\* BatchProjectTranslator.translate_project: the path of the translated
\* file is joined to output_path and written
WriteTranslatedFile(op, path, files, dirs) ==
    LET output_file_path == JoinPath(output_path, path)
        w == WriteAt(output_file_path, files, dirs)
    IN [outcome |-> w.outcome,
        access |-> IF w.outcome = "written"
                   THEN {Access(op, output_file_path)} ELSE {},
        files |-> w.files, dirs |-> w.dirs]

FileFrame == UNCHANGED <<retryVars, execVars, mcpVars, validateVars, runnerVars, parseVars, unescapeVars, suiteVars, requestVars, analyzeVars, collectVars, pathsVars, waitVars>>

FileInit ==
    /\ fs_files = InitialFiles
    /\ fs_dirs = InitialDirs
    /\ fs_access = {}
    /\ fs_last = NoResult
    /\ fs_ops = 0

FileIdle ==
    /\ fs_files = {}
    /\ fs_dirs = {}
    /\ fs_access = {}
    /\ fs_last = NoResult
    /\ fs_ops = 0

\* the effect of one operation on the state
FileDone(op, arg, r) ==
    /\ fs_files' = r.files
    /\ fs_dirs' = r.dirs
    /\ fs_access' = fs_access \cup r.access
    /\ fs_last' = [op |-> op, arg |-> arg, outcome |-> r.outcome]
    /\ fs_ops' = fs_ops + 1
    /\ FileFrame

FileGet ==
    /\ fs_ops < MaxFileOps
    /\ \E arg \in PathArgs : FileDone("get_file", arg, get_file(arg, fs_files, fs_dirs))

FileList ==
    /\ fs_ops < MaxFileOps
    /\ \E arg \in PathArgs :
           FileDone("list_directory", arg, list_directory(arg, fs_files, fs_dirs))

FileWrite ==
    /\ fs_ops < MaxFileOps
    /\ \E arg \in PathArgs : FileDone("write_file", arg, write_file(arg, fs_files, fs_dirs))

FileRetryWrite ==
    /\ fs_ops < MaxFileOps
    /\ \E arg \in PathArgs :
           FileDone("_write_translated_files", arg,
                    WriteTranslatedFile("_write_translated_files", arg, fs_files, fs_dirs))

FileBatchWrite ==
    /\ fs_ops < MaxFileOps
    /\ \E arg \in PathArgs :
           FileDone("translate_project", arg,
                    WriteTranslatedFile("translate_project", arg, fs_files, fs_dirs))

FileNext == FileGet \/ FileList \/ FileWrite \/ FileRetryWrite \/ FileBatchWrite


(***************************************************************************)
(* RequestExecutor: the validation of a response.                          *)
(***************************************************************************)
\* Python values: None, an int, a str (a sequence of characters)
None == [none |-> TRUE]
PyInt(n) == [int |-> n]
PyStr(chars) == [str |-> chars]
\* an optional field of a TestStep that is set
Some(v) == [some |-> v]

StatusCodes == {200, 404}

\* a dict as a function from its keys
Dict(keys, v) == [k \in keys |-> v]

\* response_data: the parsed JSON (a dict or a list) or response.text
ResponseData ==
    {[type |-> "dict", d |-> Dict({}, None)],
     [type |-> "dict", d |-> Dict({"name"}, PyInt(1))]}
    \cup {[type |-> "dict", d |-> Dict({"id"}, v)] : v \in {PyInt(1), PyInt(2)}}
    \cup {[type |-> "list", n |-> n] : n \in 0..MaxItems}
    \cup {[type |-> "str", words |-> w] : w \in {<<"ok">>, <<"id">>}}

\* the content rules of a TestStep: each of the five fields is None or set
ContentRules ==
    [expected_response : {None, Some(Dict({"id"}, PyInt(1)))},
     expected_response_contains : {None, Some(<<"id">>)},
     expected_response_type : {None, Some("array"), Some("object")},
     expected_min_items : {None, Some(1)},
     expected_items : {None, Some(1)}]

_check_response_content(response_data, expected) ==
    /\ response_data.type = "dict"
    /\ \A key \in DOMAIN expected :
           /\ key \in DOMAIN response_data.d
           /\ response_data.d[key] = expected[key]

_check_response_contains(response_data, expected_keys) ==
    IF response_data.type = "dict"
        THEN \A i \in 1..Len(expected_keys) : expected_keys[i] \in DOMAIN response_data.d
    ELSE IF response_data.type = "str"
        THEN \A i \in 1..Len(expected_keys) :
                 \E j \in 1..Len(response_data.words) : response_data.words[j] = expected_keys[i]
    ELSE FALSE

_check_response_type(response_data, expected_type) ==
    IF expected_type = "array" THEN response_data.type = "list"
    ELSE IF expected_type = "object" THEN response_data.type = "dict"
    ELSE FALSE

_check_min_items(response_data, min_count) ==
    response_data.type = "list" /\ response_data.n >= min_count

_check_exact_items(response_data, exact_count) ==
    response_data.type = "list" /\ response_data.n = exact_count

\* the content check that applies: the first field that is set, in the
\* order of the elif chain; <<content_match, message when it fails>>
ContentCheckAllRules(response_data, step) ==
    LET ok == /\ step.expected_response # None =>
                    _check_response_content(response_data, step.expected_response.some)
              /\ step.expected_response_contains # None =>
                    _check_response_contains(response_data, step.expected_response_contains.some)
              /\ step.expected_response_type # None =>
                    _check_response_type(response_data, step.expected_response_type.some)
              /\ step.expected_min_items # None =>
                    _check_min_items(response_data, step.expected_min_items.some)
              /\ step.expected_items # None =>
                    _check_exact_items(response_data, step.expected_items.some)
    IN  <<ok, "Response content does not match expected values">>
ContentCheck(response_data, step) ==
    IF step.expected_response # None
        THEN <<_check_response_content(response_data, step.expected_response.some),
               "Response content does not match expected values">>
    ELSE IF step.expected_response_contains # None
        THEN <<_check_response_contains(response_data, step.expected_response_contains.some),
               "Response does not contain expected keys">>
    ELSE IF step.expected_response_type # None
        THEN <<_check_response_type(response_data, step.expected_response_type.some),
               "Response type mismatch">>
    ELSE IF step.expected_min_items # None
        THEN <<_check_min_items(response_data, step.expected_min_items.some),
               "Response has fewer items than expected minimum">>
    ELSE IF step.expected_items # None
        THEN <<_check_exact_items(response_data, step.expected_items.some),
               "Response item count mismatch">>
    ELSE <<TRUE, "">>

\* "success": status_match and content_match
ValidationSuccessContentOnly(status_match, content_match) == content_match
ValidationSuccess(status_match, content_match) == status_match /\ content_match

_validate_response(status_code, response_data, step, expected_status) ==
    LET status_match == status_code = expected_status
        check == ContentCheck(response_data, step)
        content_match == check[1]
    IN [success |-> ValidationSuccess(status_match, content_match),
        content_match |-> content_match,
        errors |-> (IF status_match THEN <<>> ELSE <<"Status code mismatch">>)
                   \o (IF content_match THEN <<>> ELSE <<check[2]>>)]

ValidateFrame == UNCHANGED <<retryVars, execVars, mcpVars, fileVars, runnerVars, parseVars, unescapeVars, suiteVars, requestVars, analyzeVars, collectVars, pathsVars, waitVars>>

ValidateInit ==
    /\ vr_step \in [expected_status : StatusCodes, rules : ContentRules]
    /\ vr_response \in [status_code : StatusCodes, data : ResponseData]
    /\ vr_result = NoResult

ValidateIdle ==
    /\ vr_step = None
    /\ vr_response = None
    /\ vr_result = NoResult

Validate ==
    /\ vr_result = NoResult
    /\ vr_result' = _validate_response(vr_response.status_code, vr_response.data,
                                       vr_step.rules, vr_step.expected_status)
    /\ UNCHANGED <<vr_step, vr_response>>
    /\ ValidateFrame

ValidateNext == Validate

(***************************************************************************)
(* TestRunner and RequestExecutor.execute_request: the steps of the        *)
(* scenarios and the data saved between them.  A dict is the sequence of   *)
(* its items [key, value] in insertion order; a text is a sequence of      *)
(* characters, "{saved_" standing for its seven characters.                *)
(***************************************************************************)
\* f"{{saved_{key}}}"
placeholder(key) == <<"{saved_", key, "}">>

\* str(n) for a natural number n
DigitChars == <<"0", "1", "2", "3", "4", "5", "6", "7", "8", "9">>
RECURSIVE IntStr(_)
IntStr(n) ==
    IF n < 10 THEN <<DigitChars[n + 1]>>
    ELSE IntStr(n \div 10) \o <<DigitChars[(n % 10) + 1]>>

\* str(value)
str(value) ==
    IF value = None THEN <<"N", "o", "n", "e">>
    ELSE IF "int" \in DOMAIN value THEN IntStr(value.int)
    ELSE value.str

\* str.replace(old, new): the occurrences of old, leftmost first and not
\* overlapping, are replaced by new
RECURSIVE replace(_, _, _)
replace(text, old, new) ==
    IF Len(text) < Len(old) THEN text
    ELSE IF SubSeq(text, 1, Len(old)) = old
        THEN new \o replace(SubSeq(text, Len(old) + 1, Len(text)), old, new)
    ELSE <<Head(text)>> \o replace(Tail(text), old, new)

\* _replace_placeholders: one str.replace per item of saved_data, in order
RECURSIVE _replace_placeholders(_, _)
_replace_placeholders(text, items) ==
    IF items = <<>> THEN text
    ELSE _replace_placeholders(
             replace(text, placeholder(Head(items).key), str(Head(items).value)),
             Tail(items))

\* saved_data[key] = value
SetItem(items, key, value) ==
    IF \E i \in 1..Len(items) : items[i].key = key
    THEN [i \in 1..Len(items) |->
             IF items[i].key = key THEN [key |-> key, value |-> value] ELSE items[i]]
    ELSE Append(items, [key |-> key, value |-> value])

\* response_data.get("id")
GetId(d) == IF "id" \in DOMAIN d THEN d["id"] ELSE None

\* the endpoints of the steps
Endpoints ==
    {<<"/">>,
     <<"/">> \o placeholder("a"),
     <<"/">> \o placeholder("b"),
     <<"/">> \o placeholder("c"),
     <<"/">> \o placeholder("a") \o <<"/">> \o placeholder("a")}

NoRules ==
    [expected_response |-> None, expected_response_contains |-> None,
     expected_response_type |-> None, expected_min_items |-> None,
     expected_items |-> None]

\* the steps of the scenarios; save_response_field "" stands for None
RunnerSteps ==
    [endpoint : Endpoints, expected_status : {200}, rules : {NoRules},
     save_response_field : {"", "a", "b"}]
    \cup {[endpoint |-> <<"/">>, expected_status |-> 200,
           rules |-> [NoRules EXCEPT !.expected_response_type = Some("array")],
           save_response_field |-> "a"]}

\* what the service answers: the ids are an int or a string
RunnerData ==
    {[type |-> "dict", d |-> Dict({}, None)],
     [type |-> "dict", d |-> Dict({"id"}, PyInt(1))],
     [type |-> "dict", d |-> Dict({"id"}, PyStr(placeholder("b")))],
     [type |-> "list", n |-> 0]}
RunnerResponses ==
    {None}
    \cup [status_code : {200}, data : RunnerData]
    \cup {[status_code |-> 404, data |-> [type |-> "dict", d |-> Dict({"id"}, PyInt(1))]]}

\* execute_request saving the id before the response is validated
ExecuteRequestSavingUnvalidated(step, items, response) ==
    LET endpoint == _replace_placeholders(step.endpoint, items)
        validation_result == _validate_response(response.status_code, response.data,
                                                step.rules, step.expected_status)
        saved_field == step.save_response_field
        stored == /\ saved_field # ""
                  /\ response.data.type = "dict"
    IN IF response = None
       THEN [sent |-> endpoint, stored |-> FALSE, items |-> items,
             result |-> [success |-> FALSE, error |-> "Failed to execute request"]]
       ELSE [sent |-> endpoint, stored |-> stored,
             items |-> IF stored THEN SetItem(items, saved_field, GetId(response.data.d))
                       ELSE items,
             result |-> [success |-> validation_result.success,
                         status_code |-> response.status_code,
                         expected_status |-> step.expected_status,
                         content_match |-> validation_result.content_match,
                         saved_field |-> saved_field,
                         validation_errors |-> validation_result.errors]]

\* execute_request: the endpoint sent, the result and saved_data afterwards
execute_request(step, items, response) ==
    LET endpoint == _replace_placeholders(step.endpoint, items)
        validation_result == _validate_response(response.status_code, response.data,
                                                step.rules, step.expected_status)
        saved_field == step.save_response_field
        stored == /\ saved_field # ""
                  /\ validation_result.success
                  /\ response.data.type = "dict"
    IN IF response = None
       THEN [sent |-> endpoint, stored |-> FALSE, items |-> items,
             result |-> [success |-> FALSE, error |-> "Failed to execute request"]]
       ELSE [sent |-> endpoint, stored |-> stored,
             items |-> IF stored THEN SetItem(items, saved_field, GetId(response.data.d))
                       ELSE items,
             result |-> [success |-> validation_result.success,
                         status_code |-> response.status_code,
                         expected_status |-> step.expected_status,
                         content_match |-> validation_result.content_match,
                         saved_field |-> saved_field,
                         validation_errors |-> validation_result.errors]]

\* run_scenario, line 112: the dict the steps of the scenario use, given the
\* argument global_saved_data (None or Some dict); it is the caller's dict
\* itself (alias) when one is given
ScenarioSavedDataWhenTruthy(global) ==
    IF global # None /\ global.some # <<>> THEN [alias |-> TRUE, data |-> global.some]
    ELSE [alias |-> FALSE, data |-> <<>>]
ScenarioSavedData(global) ==
    IF global # None THEN [alias |-> TRUE, data |-> global.some]
    ELSE [alias |-> FALSE, data |-> <<>>]

RunnerFrame == UNCHANGED <<retryVars, execVars, mcpVars, fileVars, validateVars, parseVars, unescapeVars, suiteVars, requestVars, analyzeVars, collectVars, pathsVars, waitVars>>

RunnerInit ==
    /\ n_scenarios \in 1..MaxScenarios
    /\ scenario = 0
    /\ steps_done = 0
    /\ global_saved_data = <<>>
    /\ saved_data = [alias |-> FALSE, data |-> <<>>]
    /\ saved_log = <<>>
    /\ tr_last = NoResult
    /\ tr_pc = "run"

RunnerIdle ==
    /\ n_scenarios = 0
    /\ scenario = 0
    /\ steps_done = 0
    /\ global_saved_data = <<>>
    /\ saved_data = [alias |-> FALSE, data |-> <<>>]
    /\ saved_log = <<>>
    /\ tr_last = NoResult
    /\ tr_pc = "idle"

\* run_tests calls run_scenario for the next scenario
RunScenarioStart ==
    /\ tr_pc = "run"
    /\ scenario < n_scenarios
    /\ scenario' = scenario + 1
    /\ steps_done' = 0
    /\ saved_data' = ScenarioSavedData(Some(global_saved_data))
    /\ tr_pc' = "scenario"
    /\ UNCHANGED <<n_scenarios, global_saved_data, saved_log, tr_last>>
    /\ RunnerFrame

\* the value saved by a step, with the scenario that saved it
LogItem(log, key, value, i) ==
    IF \E j \in 1..Len(log) : log[j].key = key
    THEN [j \in 1..Len(log) |->
             IF log[j].key = key THEN [key |-> key, value |-> value, scenario |-> i]
             ELSE log[j]]
    ELSE Append(log, [key |-> key, value |-> value, scenario |-> i])

\* one step of the scenario: execute_request with the scenario's saved_data
RunStep ==
    /\ tr_pc = "scenario"
    /\ steps_done < MaxSteps
    /\ \E step \in RunnerSteps, response \in RunnerResponses :
           LET r == execute_request(step, saved_data.data, response)
           IN /\ saved_data' = [saved_data EXCEPT !.data = r.items]
              /\ global_saved_data' = IF saved_data.alias THEN r.items
                                      ELSE global_saved_data
              /\ saved_log' = IF r.stored
                              THEN LogItem(saved_log, step.save_response_field,
                                           GetId(response.data.d), scenario)
                              ELSE saved_log
              /\ tr_last' = [scenario |-> scenario, endpoint |-> step.endpoint,
                             sent |-> r.sent, saved |-> saved_data.data,
                             known |-> saved_log, result |-> r.result]
    /\ steps_done' = steps_done + 1
    /\ UNCHANGED <<n_scenarios, scenario, tr_pc>>
    /\ RunnerFrame

\* one step of the scenario (with the endpoint "/") during which
\* execute_request raises, before it saves anything: the except branch of
\* run_scenario appends a failed result
RunStepRaises ==
    /\ tr_pc = "scenario"
    /\ steps_done < MaxSteps
    /\ tr_last' = [scenario |-> scenario, endpoint |-> <<"/">>, sent |-> <<"/">>,
                   saved |-> saved_data.data, known |-> saved_log,
                   result |-> [success |-> FALSE, error |-> "exception",
                               exception |-> TRUE]]
    /\ steps_done' = steps_done + 1
    /\ UNCHANGED <<n_scenarios, scenario, tr_pc, global_saved_data, saved_data, saved_log>>
    /\ RunnerFrame

\* run_scenario returns after the last step of the scenario
RunScenarioEnd ==
    /\ tr_pc = "scenario"
    /\ steps_done >= 1
    /\ tr_pc' = "run"
    /\ UNCHANGED <<n_scenarios, scenario, steps_done, global_saved_data, saved_data,
                   saved_log, tr_last>>
    /\ RunnerFrame

\* run_tests returns after the last scenario
RunFinish ==
    /\ tr_pc = "run"
    /\ scenario = n_scenarios
    /\ tr_pc' = "done"
    /\ UNCHANGED <<n_scenarios, scenario, steps_done, global_saved_data, saved_data,
                   saved_log, tr_last>>
    /\ RunnerFrame

RunnerNext == RunScenarioStart \/ RunStep \/ RunStepRaises \/ RunScenarioEnd \/ RunFinish

(***************************************************************************)
(* BatchTranslationProtocol: the parser of the batch response.  A text is  *)
(* a sequence of characters; the words path, content, original_path and    *)
(* translated_files each stand for their characters.                       *)
(***************************************************************************)
Quote == "\""
\* the backtick and the apostrophe, written as words
Backtick == "BACKTICK"
Backslash == "\\"
Newline == "\n"
Apostrophe == "APOSTROPHE"
Whitespace == {" ", Newline}

\* the text of one file block: "path", "content" and "original_path", the
\* content between a pair of delimiters (backticks or quotes)
BlockText(path, delim, content) ==
    <<"{", Quote, "path", Quote, ":", " ", Quote>> \o path
    \o <<Quote, ",", " ", Quote, "content", Quote, ":", " ", delim>> \o content
    \o <<delim, ",", " ", Quote, "original_path", Quote, ":", " ", Quote, "o", Quote, "}">>

\* the contents of a block as written between the delimiters delim: plain
\* text, an escaped newline, the delimiter escaped next to the other quoting
\* character, and source text that holds a "path" entry of its own (its
\* quotes escaped when the delimiter is the quote)
EmbeddedQuote(delim) == IF delim = Quote THEN <<Backslash, Quote>> ELSE <<Quote>>
OtherDelimiter(delim) == IF delim = Quote THEN Backtick ELSE Quote
BlockContents(delim) ==
    {<<"x">>,
     <<"x", Backslash, "n", "y">>,
     <<Backslash, delim, "x", OtherDelimiter(delim), Backslash, "n", Backslash, delim>>,
     <<"{">> \o EmbeddedQuote(delim) \o <<"path">> \o EmbeddedQuote(delim) \o <<":", " ">>
         \o EmbeddedQuote(delim) \o <<"x">> \o EmbeddedQuote(delim) \o <<"}">>}

Blocks ==
    UNION {[path : {<<"a">>, <<"b">>}, delim : {delim}, content : BlockContents(delim)] :
               delim \in {Backtick, Quote}}

\* the response text of the LLM for a sequence of blocks
RECURSIVE JoinBlocks(_)
JoinBlocks(blocks) ==
    IF blocks = <<>> THEN <<>>
    ELSE BlockText(Head(blocks).path, Head(blocks).delim, Head(blocks).content)
         \o (IF Len(blocks) > 1 THEN <<",", " ">> ELSE <<>>)
         \o JoinBlocks(Tail(blocks))
ResponseText(blocks) ==
    <<"{", Quote, "translated_files", Quote, ":", " ", "[">> \o JoinBlocks(blocks) \o <<"]", "}">>

\* str.find and str.rfind of one character, 0 when it is not there
find(text, ch) ==
    IF \E i \in 1..Len(text) : text[i] = ch
    THEN CHOOSE i \in 1..Len(text) : text[i] = ch /\ \A j \in 1..(i - 1) : text[j] # ch
    ELSE 0
rfind(text, ch) ==
    IF \E i \in 1..Len(text) : text[i] = ch
    THEN CHOOSE i \in 1..Len(text) : text[i] = ch /\ \A j \in (i + 1)..Len(text) : text[j] # ch
    ELSE 0

\* \s* from position i: the first position that holds no whitespace
RECURSIVE SkipWhitespace(_, _)
SkipWhitespace(text, i) ==
    IF i <= Len(text) /\ text[i] \in Whitespace THEN SkipWhitespace(text, i + 1) ELSE i

\* the characters pat are at position i of text
At(text, i, pat) ==
    /\ i + Len(pat) - 1 <= Len(text)
    /\ SubSeq(text, i, i + Len(pat) - 1) = pat

\* the first quote at or after position i, Len(text) + 1 when there is none
RECURSIVE NextQuote(_, _)
NextQuote(text, i) ==
    IF i <= Len(text) /\ text[i] # Quote THEN NextQuote(text, i + 1) ELSE i

\* a match of the pattern at position i: the position after the match, or 0
\*   content_start_pattern: "content": then whitespace, then a backtick or
\*                          a quote
\*   content_end_pattern:   a backtick or a quote, whitespace, a comma,
\*                          whitespace, "original_path"
\*   path_pattern:          "path": then whitespace, then a quote, one or
\*                          more characters that are no quote, a quote
MatchEnd(pattern, text, i) ==
    IF pattern = "content_start_pattern" THEN
        LET j == SkipWhitespace(text, i + 4)
        IN IF At(text, i, <<Quote, "content", Quote, ":">>)
              /\ j <= Len(text) /\ text[j] \in {Backtick, Quote}
           THEN j + 1 ELSE 0
    ELSE IF pattern = "content_end_pattern" THEN
        LET j == SkipWhitespace(text, i + 1)
            k == SkipWhitespace(text, j + 1)
        IN IF text[i] \in {Backtick, Quote}
              /\ j <= Len(text) /\ text[j] = ","
              /\ At(text, k, <<Quote, "original_path", Quote>>)
           THEN k + 3 ELSE 0
    ELSE
        LET j == SkipWhitespace(text, i + 4)
            e == NextQuote(text, j + 1)
        IN IF At(text, i, <<Quote, "path", Quote, ":">>)
              /\ j <= Len(text) /\ text[j] = Quote
              /\ e <= Len(text) /\ e > j + 1
           THEN e + 1 ELSE 0

\* re.finditer: the starts of the matches, leftmost first, not overlapping
RECURSIVE finditer(_, _, _)
finditer(pattern, text, i) ==
    IF i > Len(text) THEN <<>>
    ELSE IF MatchEnd(pattern, text, i) > 0
        THEN <<i>> \o finditer(pattern, text, MatchEnd(pattern, text, i))
    ELSE finditer(pattern, text, i + 1)

\* the group of path_pattern for the match at position i
PathGroup(text, i) ==
    LET j == SkipWhitespace(text, i + 4)
    IN SubSeq(text, j + 1, NextQuote(text, j + 1) - 1)

\* process_file_content: five str.replace in a row
process_file_content(content) ==
    replace(replace(replace(replace(replace(content,
        <<Backslash, "n">>, <<Newline>>),
        <<Backslash, Quote>>, <<Quote>>),
        <<Backslash, Apostrophe>>, <<Apostrophe>>),
        <<Backslash, Backtick>>, <<Backtick>>),
        <<Backslash, Backslash>>, <<Backslash>>)

\* parse_malformed_json: the i-th path found is paired with the text between
\* the i-th content start and the i-th content end
parse_malformed_json(json_string) ==
    LET content_starts == finditer("content_start_pattern", json_string, 1)
        content_ends == finditer("content_end_pattern", json_string, 1)
        path_starts == finditer("path_pattern", json_string, 1)
        n == IF Len(content_starts) < Len(content_ends)
             THEN Len(content_starts) ELSE Len(content_ends)
        matched == IF Len(path_starts) < n THEN Len(path_starts) ELSE n
    IN [i \in 1..matched |->
           LET start_pos == MatchEnd("content_start_pattern", json_string, content_starts[i])
               end_pos == content_ends[i]
           IN [path |-> PathGroup(json_string, path_starts[i]),
               content |-> process_file_content(
                               SubSeq(json_string, start_pos, end_pos - 1))]]

\* parse_translation_response: the translated files, or the ValueError
parse_translation_response(text) ==
    LET json_start == find(text, "{")
        json_end == rfind(text, "}")
    IN IF json_start = 0 \/ json_end = 0
       THEN [raised |-> TRUE, translated_files |-> <<>>]
       ELSE [raised |-> FALSE,
             translated_files |-> parse_malformed_json(SubSeq(text, json_start, json_end))]

\* text around the JSON object
Prose == {<<>>, <<"x", " ">>}

ParseFrame ==
    UNCHANGED <<retryVars, execVars, mcpVars, fileVars, validateVars, runnerVars, unescapeVars, suiteVars, requestVars, analyzeVars, collectVars, pathsVars, waitVars>>

ParseInit ==
    /\ pr_blocks \in UNION {[1..n -> Blocks] : n \in 0..MaxBlocks}
    /\ \E before \in Prose, after \in Prose :
           response_text = before \o ResponseText(pr_blocks) \o after
    /\ pr_result = NoResult

ParseIdle ==
    /\ pr_blocks = <<>>
    /\ response_text = <<>>
    /\ pr_result = NoResult

Parse ==
    /\ pr_result = NoResult
    /\ pr_result' = parse_translation_response(response_text)
    /\ UNCHANGED <<pr_blocks, response_text>>
    /\ ParseFrame

ParseNext == Parse

(***************************************************************************)
(* BatchTranslationProtocol.process_file_content on its own.               *)
(***************************************************************************)
\* the characters of the contents
ContentChars == {Backslash, "n", Quote, Apostrophe, Backtick, Newline}

UnescapeFrame ==
    UNCHANGED <<retryVars, execVars, mcpVars, fileVars, validateVars, runnerVars, parseVars, suiteVars, requestVars, analyzeVars, collectVars, pathsVars, waitVars>>

UnescapeInit ==
    /\ ue_content \in UNION {[1..n -> ContentChars] : n \in 0..MaxContentLen}
    /\ ue_result = NoResult

UnescapeIdle ==
    /\ ue_content = <<>>
    /\ ue_result = NoResult

Unescape ==
    /\ ue_result = NoResult
    /\ ue_result' = [content |-> process_file_content(ue_content)]
    /\ UNCHANGED ue_content
    /\ UnescapeFrame

UnescapeNext == Unescape

(***************************************************************************)
(* TestRunner.run_tests and run_scenario: the step results, the scenario   *)
(* results and the aggregate.  The saved data is left to the component     *)
(* above; every step here is a step without placeholders.                  *)
(***************************************************************************)
\* the methods of the steps of this component, three values of HttpMethod
StepMethods == {"GET", "DELETE", "PATCH"}
\* the branches of _make_request
SupportedMethods == {"GET", "POST", "PUT", "DELETE"}
\* a call of requests.get/post/put/delete: a response, or a RequestException
NetOutcomes == {"response", "connection_error", "timeout"}

\* _make_request: None for a method without a branch and for a
\* RequestException, else the response
MakeRequestRaisesOnNetworkError(method, net, response) ==
    IF method \notin SupportedMethods THEN None
    ELSE IF net # "response" THEN [raised |-> net]
    ELSE response
_make_request(method, net, response) ==
    IF method \notin SupportedMethods \/ net # "response" THEN None ELSE response

\* the step of the scenarios of this component
PlainStep ==
    [endpoint |-> <<"/">>, expected_status |-> 200, rules |-> NoRules,
     save_response_field |-> ""]

\* the service's answers: the expected status, another status
StepResponses ==
    {[status_code |-> 200, data |-> [type |-> "list", n |-> 0]],
     [status_code |-> 404, data |-> [type |-> "list", n |-> 0]]}

\* what happens to a step: its method, the network, the service's answer,
\* and whether execute_request raises something that is not a
\* RequestException
StepRuns ==
    [method : StepMethods, net : NetOutcomes, response : StepResponses, raises : BOOLEAN]

\* the try block of run_scenario for one step: the entry appended to
\* step_results
StepEntry(i, run) ==
    LET response == _make_request(run.method, run.net, run.response) IN
    IF run.raises \/ (response # None /\ "raised" \in DOMAIN response)
    THEN [step_number |-> i, success |-> FALSE, error |-> "exception", exception |-> TRUE]
    ELSE [step_number |-> i] @@ execute_request(PlainStep, <<>>, response).result

\* the for loop of run_scenario: it has no break, a step is executed as
\* long as one is left
StepsLeftUntilFailure(step_results, total_steps) ==
    /\ Len(step_results) < total_steps
    /\ \A j \in DOMAIN step_results : step_results[j].success
StepsLeft(step_results, total_steps) == Len(step_results) < total_steps

\* passed_steps, passed_scenarios
Passed(results) == Cardinality({i \in DOMAIN results : results[i].success})

\* what run_scenario returns
ScenarioResult(success, step_results, total_steps) ==
    [success |-> success, step_results |-> step_results,
     total_steps |-> total_steps, passed_steps |-> Passed(step_results)]

\* a scenario result as this component keeps it in scenario_results: the
\* step_results of the scenarios already returned are left out
Summary(result) ==
    [success |-> result.success, total_steps |-> result.total_steps,
     passed_steps |-> result.passed_steps]

\* what run_tests returns when it is stopped before the first scenario
EarlyResult(failure) == [success |-> FALSE, error |-> failure]

\* what run_tests returns after the scenario loop
RunTestsResultOfLastScenario(overall, scenario_results, total) ==
    [success |-> scenario_results # <<>> /\ scenario_results[Len(scenario_results)].success,
     total_scenarios |-> total,
     passed_scenarios |-> Passed(scenario_results),
     scenario_results |-> scenario_results]
RunTestsResult(overall, scenario_results, total) ==
    [success |-> overall,
     total_scenarios |-> total,
     passed_scenarios |-> Passed(scenario_results),
     scenario_results |-> scenario_results]

SuiteFrame ==
    UNCHANGED <<retryVars, execVars, mcpVars, fileVars, validateVars, runnerVars, parseVars, unescapeVars, requestVars, analyzeVars, collectVars, pathsVars, waitVars>>

SuiteInit ==
    /\ su_pc = "setup"
    /\ su_scenarios \in UNION {[1..n -> 1..MaxSteps] : n \in 1..MaxScenarios}
    /\ su_i = 0
    /\ su_executed = <<>>
    /\ su_step_results = <<>>
    /\ su_scenario_success = TRUE
    /\ su_last = NoResult
    /\ su_returned = NoResult
    /\ su_scenario_results = <<>>
    /\ su_overall_success = TRUE
    /\ su_result = NoResult
    /\ su_calls = <<>>

SuiteIdle ==
    /\ su_pc = "idle"
    /\ su_scenarios = <<>>
    /\ su_i = 0
    /\ su_executed = <<>>
    /\ su_step_results = <<>>
    /\ su_scenario_success = TRUE
    /\ su_last = NoResult
    /\ su_returned = NoResult
    /\ su_scenario_results = <<>>
    /\ su_overall_success = TRUE
    /\ su_result = NoResult
    /\ su_calls = <<>>

\* run_tests up to the scenario loop
SuiteSetup ==
    /\ su_pc = "setup"
    /\ \/ /\ su_pc' = "run"
          /\ su_result' = su_result
          /\ su_calls' = SetupCalls("none")
       \/ \E failure \in SetupFailures :
             /\ su_pc' = "done"
             /\ su_result' = EarlyResult(failure)
             /\ su_calls' = SetupCalls(failure)
    /\ UNCHANGED <<su_scenarios, su_i, su_executed, su_step_results, su_scenario_success,
                   su_last, su_returned, su_scenario_results, su_overall_success>>
    /\ SuiteFrame

\* run_tests calls run_scenario for the next scenario
SuiteScenarioStart ==
    /\ su_pc = "run"
    /\ su_i < Len(su_scenarios)
    /\ su_i' = su_i + 1
    /\ su_executed' = <<>>
    /\ su_step_results' = <<>>
    /\ su_scenario_success' = TRUE
    /\ su_last' = NoResult
    /\ su_pc' = "scenario"
    /\ UNCHANGED <<su_scenarios, su_returned, su_scenario_results,
                   su_overall_success, su_result, su_calls>>
    /\ SuiteFrame

\* one pass of the for loop of run_scenario
SuiteStep ==
    /\ su_pc = "scenario"
    /\ StepsLeft(su_step_results, su_scenarios[su_i])
    /\ \E run \in StepRuns :
          LET i == Len(su_executed) + 1
              entry == StepEntry(i, run)
          IN  /\ su_executed' = Append(su_executed, i)
              /\ su_step_results' = Append(su_step_results, entry)
              /\ su_scenario_success' = (su_scenario_success /\ entry.success)
              /\ su_last' = [run |-> run, entry |-> entry]
    /\ UNCHANGED <<su_pc, su_scenarios, su_i, su_returned, su_scenario_results,
                   su_overall_success, su_result, su_calls>>
    /\ SuiteFrame

\* run_scenario returns; run_tests appends the result
SuiteScenarioEnd ==
    /\ su_pc = "scenario"
    /\ ~StepsLeft(su_step_results, su_scenarios[su_i])
    /\ LET result == ScenarioResult(su_scenario_success, su_step_results, su_scenarios[su_i])
       IN  /\ su_returned' = result
           /\ su_scenario_results' = Append(su_scenario_results, Summary(result))
    /\ su_overall_success' = (su_overall_success /\ su_scenario_success)
    /\ su_pc' = "run"
    /\ UNCHANGED <<su_scenarios, su_i, su_executed, su_step_results, su_scenario_success,
                   su_last, su_result, su_calls>>
    /\ SuiteFrame

\* the scenario loop ends, by its last scenario or by an exception that
\* the try of run_tests catches; the service is shut down and the aggregate
\* is returned
SuiteFinish ==
    /\ su_pc = "run"
    /\ \E raised \in BOOLEAN :
          /\ raised => su_i < Len(su_scenarios)
          /\ ~raised => su_i = Len(su_scenarios)
          /\ su_overall_success' = (su_overall_success /\ ~raised)
          /\ su_result' = RunTestsResult(su_overall_success /\ ~raised,
                                         su_scenario_results, Len(su_scenarios))
    /\ su_calls' = Append(su_calls, "shutdown_service")
    /\ su_pc' = "done"
    /\ UNCHANGED <<su_scenarios, su_i, su_executed, su_step_results, su_scenario_success,
                   su_last, su_returned, su_scenario_results>>
    /\ SuiteFrame

SuiteNext ==
    SuiteSetup \/ SuiteScenarioStart \/ SuiteStep \/ SuiteScenarioEnd \/ SuiteFinish

(***************************************************************************)
(* RequestExecutor.execute_request on one step: the body sent and the      *)
(* value saved.  A JSON value is [str |-> text], [int |-> n],              *)
(* [dict |-> function from keys] or [list |-> sequence].                   *)
(***************************************************************************)
JsonDict(d) == [dict |-> d]
JsonList(l) == [list |-> l]

\* _replace_placeholders_dict: a dict is rebuilt from its values, a string
\* goes through _replace_placeholders, anything else is returned as it is
RECURSIVE _replace_placeholders_dict(_, _)
_replace_placeholders_dict(data, items) ==
    IF "dict" \in DOMAIN data
        THEN JsonDict([k \in DOMAIN data.dict |-> _replace_placeholders_dict(data.dict[k], items)])
    ELSE IF "str" \in DOMAIN data
        THEN PyStr(_replace_placeholders(data.str, items))
    ELSE data

\* the bodies of the steps; None stands for a step without body
Bodies ==
    {None,
     JsonDict([n |-> PyStr(placeholder("a"))]),
     JsonDict([n |-> PyStr(<<"x">> \o placeholder("a") \o placeholder("b"))]),
     JsonDict([n |-> PyInt(7), o |-> JsonDict([n |-> PyStr(placeholder("a"))])]),
     JsonDict([l |-> JsonList(<<PyStr(placeholder("a"))>>)]),
     JsonDict([l |-> JsonList(<<JsonDict([n |-> PyStr(placeholder("b"))])>>)])}

\* if body: body = self._replace_placeholders_dict(body, saved_data)
BodySent(body, items) ==
    IF body = None THEN None ELSE _replace_placeholders_dict(body, items)

RequestSteps ==
    [endpoint : {<<"/">>}, body : Bodies, expected_status : {200}, rules : {NoRules},
     save_response_field : {"", "a", "b"}]

\* saved_data before the step
SavedBefore ==
    {<<>>,
     <<[key |-> "a", value |-> PyInt(5)]>>,
     <<[key |-> "a", value |-> PyInt(5)], [key |-> "b", value |-> PyStr(<<"y">>)]>>}

RequestFrame ==
    UNCHANGED <<retryVars, execVars, mcpVars, fileVars, validateVars, runnerVars, parseVars, unescapeVars, suiteVars, analyzeVars, collectVars, pathsVars, waitVars>>

RequestInit ==
    /\ rq_step \in RequestSteps
    /\ rq_saved \in SavedBefore
    /\ rq_response \in RunnerResponses
    /\ rq_result = NoResult

RequestIdle ==
    /\ rq_step = None
    /\ rq_saved = <<>>
    /\ rq_response = None
    /\ rq_result = NoResult

Request ==
    /\ rq_result = NoResult
    /\ LET r == execute_request(rq_step, rq_saved, rq_response)
       IN rq_result' = [body |-> BodySent(rq_step.body, rq_saved),
                        saved_data |-> r.items, result |-> r.result]
    /\ UNCHANGED <<rq_step, rq_saved, rq_response>>
    /\ RequestFrame

RequestNext == Request

(***************************************************************************)
(* The error analyzer: ErrorAnalyzer.analyze_error on an error text and    *)
(* ErrorAnalyzer.analyze_test_failure on the result of a suite.            *)
(***************************************************************************)
\* str.lower, on the letters of the texts of this component
UpperCase == {"B", "C", "E", "S"}
LowerOf(c) ==
    CASE c = "B" -> "b" [] c = "C" -> "c" [] c = "E" -> "e" [] c = "S" -> "s"
      [] OTHER -> c
lower(text) == [i \in 1..Len(text) |-> LowerOf(text[i])]

\* a pattern of the table is literals joined by .* ; it is kept as the
\* sequence of its literals.  The literal starts at position i of text
LiteralAt(literal, text, i) ==
    /\ i + Len(literal) - 1 <= Len(text)
    /\ SubSeq(text, i, i + Len(literal) - 1) = literal

\* the pattern matches with its first literal at position i: each .* spans
\* any characters but a newline
RECURSIVE MatchAt(_, _, _)
MatchAt(pattern, text, i) ==
    /\ LiteralAt(Head(pattern), text, i)
    /\ \/ Tail(pattern) = <<>>
       \/ \E j \in (i + Len(Head(pattern)))..Len(text) :
              /\ \A k \in (i + Len(Head(pattern)))..(j - 1) : text[k] # "\n"
              /\ MatchAt(Tail(pattern), text, j)

\* re.search(pattern, text)
search(pattern, text) == \E i \in 1..Len(text) : MatchAt(pattern, text, i)

\* substring in text
In(substring, text) == \E i \in 1..Len(text) : LiteralAt(substring, text, i)

\* self.error_patterns with the syntax group first
ErrorPatternsSyntaxFirst ==
    <<
      [error_type |-> "syntax_error",
       patterns |-> <<
         \* syntax.*error
         <<<<"s", "y", "n", "t", "a", "x">>, <<"e", "r", "r", "o", "r">>>>,
         \* unexpected.*token
         <<<<"u", "n", "e", "x", "p", "e", "c", "t", "e", "d">>, <<"t", "o", "k", "e", "n">>>>,
         \* missing.*semicolon
         <<<<"m", "i", "s", "s", "i", "n", "g">>, <<"s", "e", "m", "i", "c", "o", "l", "o", "n">>>>,
         \* unclosed.*bracket
         <<<<"u", "n", "c", "l", "o", "s", "e", "d">>, <<"b", "r", "a", "c", "k", "e", "t">>>>,
         \* invalid.*syntax
         <<<<"i", "n", "v", "a", "l", "i", "d">>, <<"s", "y", "n", "t", "a", "x">>>>>>],
      [error_type |-> "build_error",
       patterns |-> <<
         \* build failed
         <<<<"b", "u", "i", "l", "d", " ", "f", "a", "i", "l", "e", "d">>>>,
         \* docker build.*failed
         <<<<"d", "o", "c", "k", "e", "r", " ", "b", "u", "i", "l", "d">>, <<"f", "a", "i", "l", "e", "d">>>>,
         \* dockerfile.*error
         <<<<"d", "o", "c", "k", "e", "r", "f", "i", "l", "e">>, <<"e", "r", "r", "o", "r">>>>,
         \* build.*error
         <<<<"b", "u", "i", "l", "d">>, <<"e", "r", "r", "o", "r">>>>,
         \* failed to build
         <<<<"f", "a", "i", "l", "e", "d", " ", "t", "o", " ", "b", "u", "i", "l", "d">>>>>>],
      [error_type |-> "compile_error",
       patterns |-> <<
         \* compilation.*error
         <<<<"c", "o", "m", "p", "i", "l", "a", "t", "i", "o", "n">>, <<"e", "r", "r", "o", "r">>>>,
         \* syntax.*error
         <<<<"s", "y", "n", "t", "a", "x">>, <<"e", "r", "r", "o", "r">>>>,
         \* parse.*error
         <<<<"p", "a", "r", "s", "e">>, <<"e", "r", "r", "o", "r">>>>,
         \* compiler.*error
         <<<<"c", "o", "m", "p", "i", "l", "e", "r">>, <<"e", "r", "r", "o", "r">>>>,
         \* javac.*error
         <<<<"j", "a", "v", "a", "c">>, <<"e", "r", "r", "o", "r">>>>,
         \* gcc.*error
         <<<<"g", "c", "c">>, <<"e", "r", "r", "o", "r">>>>,
         \* g\\+\\+.*error
         <<<<"g", "+", "+">>, <<"e", "r", "r", "o", "r">>>>>>],
      [error_type |-> "runtime_error",
       patterns |-> <<
         \* runtime.*error
         <<<<"r", "u", "n", "t", "i", "m", "e">>, <<"e", "r", "r", "o", "r">>>>,
         \* exception.*thrown
         <<<<"e", "x", "c", "e", "p", "t", "i", "o", "n">>, <<"t", "h", "r", "o", "w", "n">>>>,
         \* segmentation.*fault
         <<<<"s", "e", "g", "m", "e", "n", "t", "a", "t", "i", "o", "n">>, <<"f", "a", "u", "l", "t">>>>,
         \* null.*pointer
         <<<<"n", "u", "l", "l">>, <<"p", "o", "i", "n", "t", "e", "r">>>>,
         \* index.*out.*of.*bounds
         <<<<"i", "n", "d", "e", "x">>, <<"o", "u", "t">>, <<"o", "f">>, <<"b", "o", "u", "n", "d", "s">>>>,
         \* connection.*refused
         <<<<"c", "o", "n", "n", "e", "c", "t", "i", "o", "n">>, <<"r", "e", "f", "u", "s", "e", "d">>>>,
         \* port.*already.*in.*use
         <<<<"p", "o", "r", "t">>, <<"a", "l", "r", "e", "a", "d", "y">>, <<"i", "n">>, <<"u", "s", "e">>>>>>],
      [error_type |-> "dependency_error",
       patterns |-> <<
         \* package.*not.*found
         <<<<"p", "a", "c", "k", "a", "g", "e">>, <<"n", "o", "t">>, <<"f", "o", "u", "n", "d">>>>,
         \* module.*not.*found
         <<<<"m", "o", "d", "u", "l", "e">>, <<"n", "o", "t">>, <<"f", "o", "u", "n", "d">>>>,
         \* import.*error
         <<<<"i", "m", "p", "o", "r", "t">>, <<"e", "r", "r", "o", "r">>>>,
         \* dependency.*missing
         <<<<"d", "e", "p", "e", "n", "d", "e", "n", "c", "y">>, <<"m", "i", "s", "s", "i", "n", "g">>>>,
         \* npm.*error
         <<<<"n", "p", "m">>, <<"e", "r", "r", "o", "r">>>>,
         \* pip.*error
         <<<<"p", "i", "p">>, <<"e", "r", "r", "o", "r">>>>,
         \* maven.*error
         <<<<"m", "a", "v", "e", "n">>, <<"e", "r", "r", "o", "r">>>>>>],
      [error_type |-> "configuration_error",
       patterns |-> <<
         \* config.*error
         <<<<"c", "o", "n", "f", "i", "g">>, <<"e", "r", "r", "o", "r">>>>,
         \* configuration.*invalid
         <<<<"c", "o", "n", "f", "i", "g", "u", "r", "a", "t", "i", "o", "n">>, <<"i", "n", "v", "a", "l", "i", "d">>>>,
         \* missing.*config
         <<<<"m", "i", "s", "s", "i", "n", "g">>, <<"c", "o", "n", "f", "i", "g">>>>,
         \* invalid.*setting
         <<<<"i", "n", "v", "a", "l", "i", "d">>, <<"s", "e", "t", "t", "i", "n", "g">>>>>>]>>

\* self.error_patterns, in the order of the dict
error_patterns ==
    <<
      [error_type |-> "build_error",
       patterns |-> <<
         \* build failed
         <<<<"b", "u", "i", "l", "d", " ", "f", "a", "i", "l", "e", "d">>>>,
         \* docker build.*failed
         <<<<"d", "o", "c", "k", "e", "r", " ", "b", "u", "i", "l", "d">>, <<"f", "a", "i", "l", "e", "d">>>>,
         \* dockerfile.*error
         <<<<"d", "o", "c", "k", "e", "r", "f", "i", "l", "e">>, <<"e", "r", "r", "o", "r">>>>,
         \* build.*error
         <<<<"b", "u", "i", "l", "d">>, <<"e", "r", "r", "o", "r">>>>,
         \* failed to build
         <<<<"f", "a", "i", "l", "e", "d", " ", "t", "o", " ", "b", "u", "i", "l", "d">>>>>>],
      [error_type |-> "compile_error",
       patterns |-> <<
         \* compilation.*error
         <<<<"c", "o", "m", "p", "i", "l", "a", "t", "i", "o", "n">>, <<"e", "r", "r", "o", "r">>>>,
         \* syntax.*error
         <<<<"s", "y", "n", "t", "a", "x">>, <<"e", "r", "r", "o", "r">>>>,
         \* parse.*error
         <<<<"p", "a", "r", "s", "e">>, <<"e", "r", "r", "o", "r">>>>,
         \* compiler.*error
         <<<<"c", "o", "m", "p", "i", "l", "e", "r">>, <<"e", "r", "r", "o", "r">>>>,
         \* javac.*error
         <<<<"j", "a", "v", "a", "c">>, <<"e", "r", "r", "o", "r">>>>,
         \* gcc.*error
         <<<<"g", "c", "c">>, <<"e", "r", "r", "o", "r">>>>,
         \* g\\+\\+.*error
         <<<<"g", "+", "+">>, <<"e", "r", "r", "o", "r">>>>>>],
      [error_type |-> "runtime_error",
       patterns |-> <<
         \* runtime.*error
         <<<<"r", "u", "n", "t", "i", "m", "e">>, <<"e", "r", "r", "o", "r">>>>,
         \* exception.*thrown
         <<<<"e", "x", "c", "e", "p", "t", "i", "o", "n">>, <<"t", "h", "r", "o", "w", "n">>>>,
         \* segmentation.*fault
         <<<<"s", "e", "g", "m", "e", "n", "t", "a", "t", "i", "o", "n">>, <<"f", "a", "u", "l", "t">>>>,
         \* null.*pointer
         <<<<"n", "u", "l", "l">>, <<"p", "o", "i", "n", "t", "e", "r">>>>,
         \* index.*out.*of.*bounds
         <<<<"i", "n", "d", "e", "x">>, <<"o", "u", "t">>, <<"o", "f">>, <<"b", "o", "u", "n", "d", "s">>>>,
         \* connection.*refused
         <<<<"c", "o", "n", "n", "e", "c", "t", "i", "o", "n">>, <<"r", "e", "f", "u", "s", "e", "d">>>>,
         \* port.*already.*in.*use
         <<<<"p", "o", "r", "t">>, <<"a", "l", "r", "e", "a", "d", "y">>, <<"i", "n">>, <<"u", "s", "e">>>>>>],
      [error_type |-> "dependency_error",
       patterns |-> <<
         \* package.*not.*found
         <<<<"p", "a", "c", "k", "a", "g", "e">>, <<"n", "o", "t">>, <<"f", "o", "u", "n", "d">>>>,
         \* module.*not.*found
         <<<<"m", "o", "d", "u", "l", "e">>, <<"n", "o", "t">>, <<"f", "o", "u", "n", "d">>>>,
         \* import.*error
         <<<<"i", "m", "p", "o", "r", "t">>, <<"e", "r", "r", "o", "r">>>>,
         \* dependency.*missing
         <<<<"d", "e", "p", "e", "n", "d", "e", "n", "c", "y">>, <<"m", "i", "s", "s", "i", "n", "g">>>>,
         \* npm.*error
         <<<<"n", "p", "m">>, <<"e", "r", "r", "o", "r">>>>,
         \* pip.*error
         <<<<"p", "i", "p">>, <<"e", "r", "r", "o", "r">>>>,
         \* maven.*error
         <<<<"m", "a", "v", "e", "n">>, <<"e", "r", "r", "o", "r">>>>>>],
      [error_type |-> "syntax_error",
       patterns |-> <<
         \* syntax.*error
         <<<<"s", "y", "n", "t", "a", "x">>, <<"e", "r", "r", "o", "r">>>>,
         \* unexpected.*token
         <<<<"u", "n", "e", "x", "p", "e", "c", "t", "e", "d">>, <<"t", "o", "k", "e", "n">>>>,
         \* missing.*semicolon
         <<<<"m", "i", "s", "s", "i", "n", "g">>, <<"s", "e", "m", "i", "c", "o", "l", "o", "n">>>>,
         \* unclosed.*bracket
         <<<<"u", "n", "c", "l", "o", "s", "e", "d">>, <<"b", "r", "a", "c", "k", "e", "t">>>>,
         \* invalid.*syntax
         <<<<"i", "n", "v", "a", "l", "i", "d">>, <<"s", "y", "n", "t", "a", "x">>>>>>],
      [error_type |-> "configuration_error",
       patterns |-> <<
         \* config.*error
         <<<<"c", "o", "n", "f", "i", "g">>, <<"e", "r", "r", "o", "r">>>>,
         \* configuration.*invalid
         <<<<"c", "o", "n", "f", "i", "g", "u", "r", "a", "t", "i", "o", "n">>, <<"i", "n", "v", "a", "l", "i", "d">>>>,
         \* missing.*config
         <<<<"m", "i", "s", "s", "i", "n", "g">>, <<"c", "o", "n", "f", "i", "g">>>>,
         \* invalid.*setting
         <<<<"i", "n", "v", "a", "l", "i", "d">>, <<"s", "e", "t", "t", "i", "n", "g">>>>>>]>>

\* analyze_build_error
analyze_build_error(error_output) ==
    LET text == lower(error_output) IN
    [error_type |-> "build_error", message |-> "Build process failed",
     suggestions |->
         (IF In(<<"d", "o", "c", "k", "e", "r", "f", "i", "l", "e">>, text)
          THEN <<"Check Dockerfile syntax and base image",
                 "Ensure all required files are copied correctly",
                 "Verify build context includes all necessary files">>
          ELSE <<>>)
         \o (IF In(<<"p", "e", "r", "m", "i", "s", "s", "i", "o", "n">>, text)
             THEN <<"Check file permissions and ownership">> ELSE <<>>)
         \o (IF In(<<"n", "o", " ", "s", "u", "c", "h", " ", "f", "i", "l", "e">>, text)
             THEN <<"Verify all referenced files exist in the build context">> ELSE <<>>)
         \o (IF In(<<"p", "o", "r", "t">>, text)
             THEN <<"Check port configuration and availability">> ELSE <<>>)]

\* analyze_compile_error, without the file and line it extracts
analyze_compile_error(error_output) ==
    LET text == lower(error_output) IN
    [error_type |-> "compile_error", message |-> "Compilation failed",
     suggestions |->
         IF In(<<"j", "a", "v", "a">>, text) \/ In(<<"j", "a", "v", "a", "c">>, text)
         THEN <<"Check Java syntax and imports",
                "Verify classpath and dependencies",
                "Ensure proper package declarations">>
         ELSE IF In(<<"j", "a", "v", "a", "s", "c", "r", "i", "p", "t">>, text) \/ In(<<"n", "o", "d", "e">>, text)
         THEN <<"Check JavaScript syntax",
                "Verify module imports and exports",
                "Check for missing semicolons or brackets">>
         ELSE IF In(<<"p", "y", "t", "h", "o", "n">>, text)
         THEN <<"Check Python syntax and indentation",
                "Verify import statements",
                "Check for missing colons or parentheses">>
         ELSE <<>>]

\* analyze_runtime_error without its first branch
AnalyzeRuntimeErrorWithoutConnectionRefused(error_output) ==
    LET text == lower(error_output) IN
    [error_type |-> "runtime_error", message |-> "Runtime error occurred",
     suggestions |->
         IF In(<<"n", "u", "l", "l", " ", "p", "o", "i", "n", "t", "e", "r">>, text)
         THEN <<"Check for null value handling",
                "Add null checks before object access",
                "Verify object initialization">>
         ELSE <<>>]

\* analyze_runtime_error
analyze_runtime_error(error_output) ==
    LET text == lower(error_output) IN
    [error_type |-> "runtime_error", message |-> "Runtime error occurred",
     suggestions |->
         IF In(<<"c", "o", "n", "n", "e", "c", "t", "i", "o", "n", " ", "r", "e", "f", "u", "s", "e", "d">>, text)
         THEN <<"Check if the service is running on the correct port",
                "Verify network configuration",
                "Check firewall settings">>
         ELSE IF In(<<"p", "o", "r", "t", " ", "a", "l", "r", "e", "a", "d", "y", " ", "i", "n", " ", "u", "s", "e">>, text)
         THEN <<"Change the port number in configuration",
                "Stop other services using the same port",
                "Check for zombie processes">>
         ELSE IF In(<<"n", "u", "l", "l", " ", "p", "o", "i", "n", "t", "e", "r">>, text)
         THEN <<"Check for null value handling",
                "Add null checks before object access",
                "Verify object initialization">>
         ELSE IF In(<<"o", "u", "t", " ", "o", "f", " ", "m", "e", "m", "o", "r", "y">>, text)
         THEN <<"Increase memory allocation",
                "Check for memory leaks",
                "Optimize memory usage">>
         ELSE <<>>]

\* the loop over self.error_patterns.items() of analyze_error: the type of
\* the first group one of whose patterns is found in the text
RECURSIVE FirstMatch(_, _)
FirstMatch(groups, text) ==
    IF groups = <<>> THEN "unknown_error"
    ELSE IF \E p \in DOMAIN Head(groups).patterns : search(Head(groups).patterns[p], text)
    THEN Head(groups).error_type
    ELSE FirstMatch(Tail(groups), text)

\* the values of error_type_hint given by the callers, and no hint
Hints == {"none", "build_error", "service_startup_error", "test_failure"}

\* analyze_error
analyze_error(error_output, error_type_hint) ==
    LET error_output_lower == lower(error_output)
        error_type == FirstMatch(error_patterns, error_output_lower)
    IN IF error_type_hint = "build_error" THEN analyze_build_error(error_output)
       ELSE IF error_type_hint = "compile_error" THEN analyze_compile_error(error_output)
       ELSE IF error_type_hint = "runtime_error" THEN analyze_runtime_error(error_output)
       ELSE IF error_type = "build_error" THEN analyze_build_error(error_output)
       ELSE IF error_type = "compile_error" THEN analyze_compile_error(error_output)
       ELSE IF error_type = "runtime_error" THEN analyze_runtime_error(error_output)
       ELSE IF error_type = "unknown_error"
       THEN [error_type |-> "unknown_error", message |-> "Unknown error occurred",
             suggestions |-> <<"Review error output for specific issues">>]
       ELSE [error_type |-> error_type, message |-> "Error detected",
             suggestions |-> <<"Investigate">>]

\* the failed steps of a scenario result, in order
RECURSIVE FailedSteps(_)
FailedSteps(step_results) ==
    IF step_results = <<>> THEN <<>>
    ELSE (IF ~Head(step_results).success THEN <<Head(step_results)>> ELSE <<>>)
         \o FailedSteps(Tail(step_results))

\* the loops of analyze_test_failure over the scenarios, with the first
\* failed step of a scenario only
RECURSIVE FirstFailureOfScenarios(_)
FirstFailureOfScenarios(scenario_results) ==
    IF scenario_results = <<>> THEN <<>>
    ELSE (IF ~Head(scenario_results).success
          THEN LET failed == FailedSteps(Head(scenario_results).step_results)
               IN [i \in 1..(IF failed = <<>> THEN 0 ELSE 1) |->
                      [error_type |-> "test_failure", context |-> failed[i]]]
          ELSE <<>>)
         \o FirstFailureOfScenarios(Tail(scenario_results))

\* the loops of analyze_test_failure over the scenarios: one ErrorInfo per
\* failed step of a failed scenario
RECURSIVE FailuresOfScenarios(_)
FailuresOfScenarios(scenario_results) ==
    IF scenario_results = <<>> THEN <<>>
    ELSE (IF ~Head(scenario_results).success
          THEN LET failed == FailedSteps(Head(scenario_results).step_results)
               IN [i \in DOMAIN failed |->
                      [error_type |-> "test_failure", context |-> failed[i]]]
          ELSE <<>>)
         \o FailuresOfScenarios(Tail(scenario_results))

\* analyze_test_failure on the dict run_tests returns
TestFailures(test_results) ==
    IF ~test_results.success
    THEN FailuresOfScenarios(IF "scenario_results" \in DOMAIN test_results
                             THEN test_results.scenario_results ELSE <<>>)
    ELSE <<>>

\* the parts the error texts of this component are made of
Phrases ==
    {<<"B", "u", "i", "l", "d">>,
     <<"e", "r", "r", "o", "r">>,
     <<"f", "a", "i", "l", "e", "d">>,
     <<"S", "y", "n", "t", "a", "x">>,
     <<"C", "o", "n", "n", "e", "c", "t", "i", "o", "n">>,
     <<"r", "e", "f", "u", "s", "e", "d">>,
     <<"i", "m", "p", "o", "r", "t">>,
     <<"c", "o", "n", "f", "i", "g">>,
     <<"p", "o", "r", "t">>,
     <<"d", "o", "c", "k", "e", "r">>,
     <<"\n">>}

\* the parts joined by blanks
RECURSIVE Join(_)
Join(parts) ==
    IF parts = <<>> THEN <<>>
    ELSE IF Len(parts) = 1 THEN Head(parts)
    ELSE Head(parts) \o <<" ">> \o Join(Tail(parts))

ConnectionRefusedText ==
    <<"E", "r", "r", "o", "r", ":", " ", "c", "o", "n", "n", "e", "c", "t", "i", "o", "n", " ", "r", "e", "f", "u", "s", "e", "d", " ", "o", "n", " ", "p", "o", "r", "t", " ", "8", "0", "0", "0">>

ErrorTexts ==
    {Join(parts) : parts \in UNION {[1..n -> Phrases] : n \in 0..MaxPhrases}}
    \cup {ConnectionRefusedText}

\* the steps of the suites handed to analyze_test_failure: a step answered
\* with the expected status, one answered with another status
AnalyzedRuns ==
    {[method |-> "GET", net |-> "response", response |-> r, raises |-> FALSE] :
         r \in StepResponses}

\* what run_scenario returns for the runs of its steps
ScenarioOf(runs) ==
    LET step_results == [i \in DOMAIN runs |-> StepEntry(i, runs[i])]
    IN ScenarioResult(\A i \in DOMAIN step_results : step_results[i].success,
                      step_results, Len(runs))

AnalyzedScenarios ==
    {ScenarioOf(runs) : runs \in UNION {[1..n -> AnalyzedRuns] : n \in 1..MaxSteps}}

\* what run_tests returns: the result of a suite whose scenarios all ran, of
\* one cut short by an exception, or of one stopped before its first scenario
AnalyzedSuites ==
    UNION {{RunTestsResult(\A i \in DOMAIN rs : rs[i].success, rs, Len(rs)),
            RunTestsResult(FALSE, rs, Len(rs) + 1)} :
               rs \in UNION {[1..n -> AnalyzedScenarios] : n \in 1..MaxScenarios}}
    \cup {EarlyResult(f) : f \in SetupFailures}

AnalyzeFrame ==
    UNCHANGED <<retryVars, execVars, mcpVars, fileVars, validateVars, runnerVars, parseVars, unescapeVars, suiteVars, requestVars, collectVars, pathsVars, waitVars>>

AnalyzeInit ==
    /\ \/ an_input \in [error_output : ErrorTexts, error_type_hint : Hints]
       \/ an_input \in [test_results : AnalyzedSuites]
    /\ an_result = NoResult

AnalyzeIdle ==
    /\ an_input = NoResult
    /\ an_result = NoResult

AnalyzeError ==
    /\ an_result = NoResult
    /\ "error_output" \in DOMAIN an_input
    /\ an_result' = [info |-> analyze_error(an_input.error_output, an_input.error_type_hint)]
    /\ UNCHANGED an_input
    /\ AnalyzeFrame

AnalyzeTestFailure ==
    /\ an_result = NoResult
    /\ "test_results" \in DOMAIN an_input
    /\ an_result' = [errors |-> TestFailures(an_input.test_results)]
    /\ UNCHANGED an_input
    /\ AnalyzeFrame

AnalyzeNext == AnalyzeError \/ AnalyzeTestFailure

(***************************************************************************)
(* BatchTranslationProtocol._collect_project_files: the files of the       *)
(* source tree that go into a translation request.                         *)
(***************************************************************************)
\* exclude_dirs
exclude_dirs ==
    {"__pycache__", ".git", "node_modules", ".venv", "venv", "target", "build",
     "dist", ".pytest_cache", ".coverage", "logs", "tmp", "temp"}

\* the names of the directories, of the source path and below it, and of
\* the files
DirNames == {"src", "build"}
FileNames == {"main.py", "logs"}

\* the source paths: the parts of Path(source_path)
SourcePaths == UNION {[1..n -> DirNames] : n \in 1..MaxRootParts}

\* a file of the tree: the directories below the source directory it lies
\* in, its name, and whether open(..., encoding='utf-8') and read succeed
TreeFiles ==
    [dirs : UNION {[1..n -> DirNames] : n \in 0..MaxDepth},
     name : FileNames, readable : BOOLEAN]

\* the trees: sets of files with different paths
Trees ==
    {t \in SUBSET TreeFiles :
        /\ Cardinality(t) <= MaxTreeFiles
        /\ \A f, g \in t : (f.dirs = g.dirs /\ f.name = g.name) => f = g}

\* file_path.parts for a file found by source_dir.rglob: the parts of the
\* source directory, then the path below it
parts(source, f) == source \o f.dirs \o <<f.name>>

\* any(part in exclude_dirs for part in file_path.parts)
Excluded(source, f) ==
    \E i \in DOMAIN parts(source, f) : parts(source, f)[i] \in exclude_dirs

\* _collect_project_files: the ProjectFile paths (relative to the source
\* directory) of the files that are not skipped.  The list is kept as a
\* set: its order is the order of rglob, which the file system decides
_collect_project_files(source, tree) ==
    {f.dirs \o <<f.name>> : f \in {g \in tree : ~Excluded(source, g) /\ g.readable}}

CollectFrame ==
    UNCHANGED <<retryVars, execVars, mcpVars, fileVars, validateVars, runnerVars, parseVars, unescapeVars, suiteVars, requestVars, analyzeVars, pathsVars, waitVars>>

CollectInit ==
    /\ cf_source \in SourcePaths
    /\ cf_tree \in Trees
    /\ cf_result = NoResult

CollectIdle ==
    /\ cf_source = <<>>
    /\ cf_tree = {}
    /\ cf_result = NoResult

\* create_translation_request: the files collected; an exception of open or
\* read is caught per file, so the request is always built
Collect ==
    /\ cf_result = NoResult
    /\ cf_result' = [project_files |-> _collect_project_files(cf_source, cf_tree)]
    /\ UNCHANGED <<cf_source, cf_tree>>
    /\ CollectFrame

CollectNext == Collect

(***************************************************************************)
(* The setup on disk as TestExecutor.validate_setup and as                 *)
(* TestRunner.validate_paths see it.                                       *)
(***************************************************************************)
\* where a script can lie: the project directory, its parent directory
Locations == {"project", "parent"}
\* a script at a location: no file, a file without the x bits, a file with
FileStates == {"absent", "file", "executable"}

\* the disk: whether the project directory and the test cases file exist,
\* and each script at each location; the project directory of a file in it
\* exists
Disks ==
    {d \in [project : BOOLEAN, test_cases : BOOLEAN,
            scripts : [Scripts \X Locations -> FileStates]] :
        ~d.project => \A s \in Scripts : d.scripts[<<s, "project">>] = "absent"}

\* _find_script: the project directory first, then its parent; "none" for
\* None
_find_script(disk, script_name) ==
    IF disk.scripts[<<script_name, "project">>] # "absent" THEN "project"
    ELSE IF disk.scripts[<<script_name, "parent">>] # "absent" THEN "parent"
    ELSE "none"

\* what TestExecutor.validate_setup finds missing on the disk
Missing(disk) ==
    (IF disk.project THEN {} ELSE {"project"})
        \cup (IF disk.test_cases THEN {} ELSE {"test_cases"})
        \cup {s \in Scripts : _find_script(disk, s) = "none"}

\* TestRunner.__init__: scripts_dir = self.test_project_path.parent
scripts_dir == "parent"

\* ServiceManager.validate_scripts: both scripts exist in scripts_dir and
\* have an x bit
validate_scripts(disk) ==
    /\ disk.scripts[<<"start.sh", scripts_dir>>] # "absent"
    /\ disk.scripts[<<"shutdown.sh", scripts_dir>>] # "absent"
    /\ disk.scripts[<<"start.sh", scripts_dir>>] = "executable"
    /\ disk.scripts[<<"shutdown.sh", scripts_dir>>] = "executable"

\* TestRunner.validate_paths
validate_paths(disk) ==
    IF ~disk.project THEN FALSE
    ELSE IF ~disk.test_cases THEN FALSE
    ELSE validate_scripts(disk)

PathsFrame ==
    UNCHANGED <<retryVars, execVars, mcpVars, fileVars, validateVars, runnerVars, parseVars, unescapeVars, suiteVars, requestVars, analyzeVars, collectVars, waitVars>>

PathsInit ==
    /\ ps_disk \in Disks
    /\ ps_result = NoResult

PathsIdle ==
    /\ ps_disk = None
    /\ ps_result = NoResult

\* the executor is built and validates its setup; the runner it builds for
\* the same project validates its paths at the start of run_tests
PathsValidate ==
    /\ ps_result = NoResult
    /\ ps_result' =
           [start_script |-> _find_script(ps_disk, "start.sh"),
            shutdown_script |-> _find_script(ps_disk, "shutdown.sh"),
            setup_valid |-> validate_setup(Missing(ps_disk))[1],
            runner_scripts |-> scripts_dir,
            paths_valid |-> validate_paths(ps_disk)]
    /\ UNCHANGED ps_disk
    /\ PathsFrame

PathsNext == PathsValidate

(***************************************************************************)
(* The readiness poll: TestExecutor._wait_for_service, and                 *)
(* ServiceManager.wait_for_service, which has the same loop.  Time is      *)
(* counted in whole seconds.                                               *)
(***************************************************************************)
\* what requests.get(".../health", timeout=5) ends in: a response with
\* status 200, a response with another status, a RequestException (no
\* connection, no answer within the timeout), another exception
HealthAnswers == {"200", "503", "connection_error", "request_timeout", "exception"}
FailedRequests == {"connection_error", "request_timeout"}

\* the seconds a health check can take
Durations(answer) == IF answer = "request_timeout" THEN {RequestTimeout} ELSE {0, 1}

\* while time.time() - start_time < timeout
Continues(elapsed) == elapsed < WaitTimeout

\* the body of the loop with the except clause left out
AfterCheckWithoutExcept(answer) ==
    CASE answer = "200" -> "return_true"
      [] answer = "503" -> "sleep"
      [] OTHER -> "raise"

\* the body of the loop after the health check: return True for a 200,
\* pass for a RequestException, the sleep after every other answer; an
\* exception of another class leaves the method
AfterCheck(answer) ==
    CASE answer = "200" -> "return_true"
      [] answer \in FailedRequests \cup {"503"} -> "sleep"
      [] OTHER -> "raise"

WaitFrame ==
    UNCHANGED <<retryVars, execVars, mcpVars, fileVars, validateVars, runnerVars, parseVars, unescapeVars, suiteVars, requestVars, analyzeVars, collectVars, pathsVars>>

WaitInit ==
    /\ wt_pc = "test"
    /\ wt_elapsed = 0
    /\ wt_checks = 0
    /\ wt_last = "none"
    /\ wt_failed = FALSE
    /\ wt_result = NoResult

WaitIdle ==
    /\ wt_pc = "idle"
    /\ wt_elapsed = 0
    /\ wt_checks = 0
    /\ wt_last = "none"
    /\ wt_failed = FALSE
    /\ wt_result = NoResult

\* the test of the while loop; return False after it
WaitTest ==
    /\ wt_pc = "test"
    /\ IF Continues(wt_elapsed)
       THEN wt_pc' = "check" /\ wt_result' = wt_result
       ELSE wt_pc' = "done" /\ wt_result' = [returned |-> FALSE]
    /\ UNCHANGED <<wt_elapsed, wt_checks, wt_last, wt_failed>>
    /\ WaitFrame

\* one health check
WaitCheck ==
    /\ wt_pc = "check"
    /\ \E answer \in HealthAnswers :
          /\ \E d \in Durations(answer) : wt_elapsed' = wt_elapsed + d
          /\ wt_last' = answer
          /\ wt_failed' = (wt_failed \/ answer \in FailedRequests)
          /\ CASE AfterCheck(answer) = "return_true" ->
                      wt_pc' = "done" /\ wt_result' = [returned |-> TRUE]
               [] AfterCheck(answer) = "sleep" ->
                      wt_pc' = "sleep" /\ wt_result' = wt_result
               [] OTHER ->
                      wt_pc' = "raised" /\ wt_result' = wt_result
    /\ wt_checks' = wt_checks + 1
    /\ WaitFrame

\* time.sleep(2)
WaitSleep ==
    /\ wt_pc = "sleep"
    /\ wt_elapsed' = wt_elapsed + SleepInterval
    /\ wt_pc' = "test"
    /\ UNCHANGED <<wt_checks, wt_last, wt_failed, wt_result>>
    /\ WaitFrame

WaitNext == WaitTest \/ WaitCheck \/ WaitSleep

(***************************************************************************)
(* The specifications, one per component.                                  *)
(***************************************************************************)
InitRetry ==
    RetryInit /\ ExecIdle /\ McpIdle /\ FileIdle /\ ValidateIdle /\ RunnerIdle /\ ParseIdle /\ UnescapeIdle /\ SuiteIdle /\ RequestIdle /\ AnalyzeIdle /\ CollectIdle /\ PathsIdle /\ WaitIdle
SpecRetry == InitRetry /\ [][RetryNext]_vars

InitExec ==
    ExecInit /\ RetryIdle /\ McpIdle /\ FileIdle /\ ValidateIdle /\ RunnerIdle /\ ParseIdle /\ UnescapeIdle /\ SuiteIdle /\ RequestIdle /\ AnalyzeIdle /\ CollectIdle /\ PathsIdle /\ WaitIdle
SpecExec == InitExec /\ [][ExecNext]_vars

InitMcp ==
    McpInit /\ RetryIdle /\ ExecIdle /\ FileIdle /\ ValidateIdle /\ RunnerIdle /\ ParseIdle /\ UnescapeIdle /\ SuiteIdle /\ RequestIdle /\ AnalyzeIdle /\ CollectIdle /\ PathsIdle /\ WaitIdle
SpecMcp == InitMcp /\ [][McpNext]_vars
\* translate_project runs in one thread and every call of an iteration
\* returns or raises, so an enabled step of the loop is eventually taken
SpecMcpFair == InitMcp /\ [][McpNext]_vars /\ WF_vars(McpNext)

InitFile ==
    FileInit /\ RetryIdle /\ ExecIdle /\ McpIdle /\ ValidateIdle /\ RunnerIdle /\ ParseIdle /\ UnescapeIdle /\ SuiteIdle /\ RequestIdle /\ AnalyzeIdle /\ CollectIdle /\ PathsIdle /\ WaitIdle
SpecFile == InitFile /\ [][FileNext]_vars

InitValidate ==
    ValidateInit /\ RetryIdle /\ ExecIdle /\ McpIdle /\ FileIdle /\ RunnerIdle /\ ParseIdle /\ UnescapeIdle /\ SuiteIdle /\ RequestIdle /\ AnalyzeIdle /\ CollectIdle /\ PathsIdle /\ WaitIdle
SpecValidate == InitValidate /\ [][ValidateNext]_vars

InitRunner ==
    RunnerInit /\ RetryIdle /\ ExecIdle /\ McpIdle /\ FileIdle /\ ValidateIdle /\ ParseIdle /\ UnescapeIdle /\ SuiteIdle /\ RequestIdle /\ AnalyzeIdle /\ CollectIdle /\ PathsIdle /\ WaitIdle
SpecRunner == InitRunner /\ [][RunnerNext]_vars

InitParse ==
    ParseInit /\ RetryIdle /\ ExecIdle /\ McpIdle /\ FileIdle /\ ValidateIdle /\ RunnerIdle /\ UnescapeIdle /\ SuiteIdle /\ RequestIdle /\ AnalyzeIdle /\ CollectIdle /\ PathsIdle /\ WaitIdle
SpecParse == InitParse /\ [][ParseNext]_vars

InitUnescape ==
    UnescapeInit /\ RetryIdle /\ ExecIdle /\ McpIdle /\ FileIdle /\ ValidateIdle /\ RunnerIdle /\ ParseIdle /\ SuiteIdle /\ RequestIdle /\ AnalyzeIdle /\ CollectIdle /\ PathsIdle /\ WaitIdle
SpecUnescape == InitUnescape /\ [][UnescapeNext]_vars

InitRequest ==
    RequestInit /\ RetryIdle /\ ExecIdle /\ McpIdle /\ FileIdle /\ ValidateIdle /\ RunnerIdle /\ ParseIdle /\ UnescapeIdle /\ SuiteIdle /\ AnalyzeIdle /\ CollectIdle /\ PathsIdle /\ WaitIdle
SpecRequest == InitRequest /\ [][RequestNext]_vars

InitAnalyze ==
    AnalyzeInit /\ RetryIdle /\ ExecIdle /\ McpIdle /\ FileIdle /\ ValidateIdle /\ RunnerIdle /\ ParseIdle /\ UnescapeIdle /\ SuiteIdle /\ RequestIdle /\ CollectIdle /\ PathsIdle /\ WaitIdle
SpecAnalyze == InitAnalyze /\ [][AnalyzeNext]_vars

InitWait ==
    WaitInit /\ AnalyzeIdle /\ RetryIdle /\ ExecIdle /\ McpIdle /\ FileIdle /\ ValidateIdle /\ RunnerIdle /\ ParseIdle /\ UnescapeIdle /\ SuiteIdle /\ RequestIdle /\ CollectIdle /\ PathsIdle
SpecWait == InitWait /\ [][WaitNext]_vars
\* a poll that has not returned takes its next step
SpecWaitFair == InitWait /\ [][WaitNext]_vars /\ WF_vars(WaitNext)

InitPaths ==
    PathsInit /\ AnalyzeIdle /\ RetryIdle /\ ExecIdle /\ McpIdle /\ FileIdle /\ ValidateIdle /\ RunnerIdle /\ ParseIdle /\ UnescapeIdle /\ SuiteIdle /\ RequestIdle /\ CollectIdle /\ WaitIdle
SpecPaths == InitPaths /\ [][PathsNext]_vars

InitCollect ==
    CollectInit /\ AnalyzeIdle /\ RetryIdle /\ ExecIdle /\ McpIdle /\ FileIdle /\ ValidateIdle /\ RunnerIdle /\ ParseIdle /\ UnescapeIdle /\ SuiteIdle /\ RequestIdle /\ PathsIdle /\ WaitIdle
SpecCollect == InitCollect /\ [][CollectNext]_vars

InitSuite ==
    SuiteInit /\ RetryIdle /\ ExecIdle /\ McpIdle /\ FileIdle /\ ValidateIdle /\ RunnerIdle /\ ParseIdle /\ UnescapeIdle /\ RequestIdle /\ AnalyzeIdle /\ CollectIdle /\ PathsIdle /\ WaitIdle
SpecSuite == InitSuite /\ [][SuiteNext]_vars

(***************************************************************************)
(* The claims about the retry orchestrator.                                *)
(***************************************************************************)
HasSuccess(h) == \E i \in 1..Len(h) : h[i].success
FirstSuccess(h) == CHOOSE i \in 1..Len(h) :
                      h[i].success /\ \A j \in 1..(i - 1) : ~h[j].success

\* C1: in one translate_with_retry run with max_retries = R at most R+1
\* RetryAttempts are appended, no attempt follows a successful one, and at
\* the end the number of attempts is R+1 if none succeeded, otherwise the
\* index of the first successful attempt.
C1_AttemptsBounded ==
    /\ Len(retry_attempts) <= max_retries + 1
    /\ \A i \in 1..(Len(retry_attempts) - 1) : ~retry_attempts[i].success
    /\ rm_pc = "done" =>
          Len(retry_attempts) = IF HasSuccess(retry_attempts)
                                THEN FirstSuccess(retry_attempts)
                                ELSE max_retries + 1

\* a run that stopped at a successful second attempt although a third was allowed
C1_Witness ==
    /\ rm_pc = "done"
    /\ max_retries = 2
    /\ Len(retry_attempts) = 2
    /\ ~retry_attempts[1].success
    /\ retry_attempts[2].success

(***************************************************************************)
(* The claims about the test executor.                                     *)
(***************************************************************************)
\* C2: when execute_full_test has ended, by a return or by an exception,
\* every invocation of start_service is followed by an invocation of
\* shutdown_service, whatever the readiness poll and the tests did.
C2_StartThenShutdown ==
    ex_pc \in {"done", "raised"} =>
        \A i \in 1..Len(ex_calls) :
            ex_calls[i] = "start_service" =>
                \E j \in (i + 1)..Len(ex_calls) : ex_calls[j] = "shutdown_service"

\* a run whose service started and whose test runner raised, shut down at the end
C2_Witness ==
    /\ ex_pc = "done"
    /\ ex_service[1]
    /\ ex_tests = run_tests("exception")
    /\ \E i \in 1..Len(ex_calls) : ex_calls[i] = "start_service"
    /\ ex_calls[Len(ex_calls)] = "shutdown.sh"

(***************************************************************************)
(* The claims about the iterative loop.                                    *)
(***************************************************************************)
HasCompleteCall(h) ==
    \E i \in 1..Len(h) : h[i].role = "function_call" /\ h[i].name = "translation_complete"

\* C3: when the loop has ended and a response of the LLM held a tool_call
\* named translation_complete, the loop returned success = true at that
\* iteration: the call was in the last response, so that no request was
\* sent after it.
C3_CompleteEndsSession ==
    (mcp_pc = "done" /\ HasCompleteCall(conversation_history)) =>
        /\ mcp_result.success
        /\ mcp_result.iterations = llm_sends
        /\ ~HasCompleteCall(last_sent)

\* the tool_results of the history h that carry the id of its i-th message
AnswersTo(h, i) ==
    {j \in 1..Len(h) : h[j].role = "function_response" /\ h[j].id = h[i].id}

WellAnswered(h) ==
    \A i \in 1..Len(h) :
        h[i].role = "function_call" =>
            /\ Cardinality(AnswersTo(h, i)) = 1
            /\ \A j \in AnswersTo(h, i) : j > i

\* C4: every history passed to send_message, and the history the next send
\* will pass, has for each tool_call exactly one tool_result with that
\* tool_call's id, later in the history.
C4_ToolCallsAnswered ==
    /\ WellAnswered(last_sent)
    /\ mcp_pc = "loop" => WellAnswered(conversation_history)

\* a history was sent that holds two tool calls of one response, one of them
\* with a failed dispatch, and their two results
C4_Witness ==
    /\ llm_sends >= 2
    /\ \E i \in 1..Len(last_sent) :
          /\ i + 3 <= Len(last_sent)
          /\ last_sent[i].role = "function_call"
          /\ last_sent[i + 1].role = "function_call"
          /\ last_sent[i + 1].bad_args
          /\ last_sent[i + 2].role = "function_response"
          /\ last_sent[i + 3].role = "function_response"
          /\ last_sent[i + 3].error

(***************************************************************************)
(* The claims about the file tool and the writers.                        *)
(***************************************************************************)
\* containment by path components
IsInside(p, root) ==
    /\ Len(root) <= Len(p)
    /\ SubSeq(p, 1, Len(root)) = root

ToolRoot(op) == IF op = "write_file" THEN output_path ELSE source_path

\* the last operation was given a path that resolves outside root
LastEscapes(root) ==
    ~IsInside(resolve(JoinPath(root, lstrip(fs_last.arg))), root)

\* C5: get_file and list_directory read, and write_file writes, only paths
\* that resolve inside the configured root by path components (the source
\* root for the reads, the output root for the writes), and an argument
\* that resolves outside the root is answered by access denied.
C5_ContainedByComponents ==
    /\ \A a \in fs_access :
           a.op \in ToolOps => IsInside(a.path, ToolRoot(a.op))
    /\ (fs_last # NoResult /\ fs_last.op \in ToolOps /\ LastEscapes(ToolRoot(fs_last.op)))
           => fs_last.outcome = "access_denied"

\* the last translated file had a path that leaves the output root
LastLeavesOutput ==
    ~IsInside(resolve(JoinPath(output_path, fs_last.arg)), output_path)

\* C6: every translated file written by the retry orchestrator or by the
\* plain batch engine lies inside the output root, and a returned path that
\* leaves the output root (by ".." or by being absolute) is not written.
C6_TranslatedFilesInsideOutput ==
    /\ \A a \in fs_access :
           a.op \in WriterOps => IsInside(a.path, output_path)
    /\ (fs_last # NoResult /\ fs_last.op \in WriterOps /\ LastLeavesOutput)
           => fs_last.outcome # "written"

(***************************************************************************)
(* The claims about the request executor and the test runner.              *)
(***************************************************************************)
\* C7: when the status code of the response differs from expected_status,
\* the validation result has success = false and a status-mismatch message
\* among its errors, whatever the content rules and the content check.
C7_StatusMismatchFails ==
    (vr_result # NoResult /\ vr_response.status_code # vr_step.expected_status) =>
        /\ ~vr_result.success
        /\ \E i \in 1..Len(vr_result.errors) : vr_result.errors[i] = "Status code mismatch"

\* a status mismatch on a response that passes the content rule of its step
C7_Witness ==
    /\ vr_result # NoResult
    /\ vr_response.status_code # vr_step.expected_status
    /\ vr_result.content_match
    /\ vr_step.rules.expected_response_type = Some("array")
    /\ vr_result.errors = <<"Status code mismatch">>

\* the items of the log as a dict
Items(log) == [i \in 1..Len(log) |-> [key |-> log[i].key, value |-> log[i].value]]

\* old occurs in text
Occurs(text, old) ==
    \E i \in 1..Len(text) :
        i + Len(old) - 1 <= Len(text) /\ SubSeq(text, i, i + Len(old) - 1) = old

\* C8: within one run, the values saved by the steps of earlier scenarios
\* (the last value saved per key) are the saved data of the scenario being
\* run, and the endpoint sent by a step is the step's endpoint with the
\* placeholders replaced from them.
C8_SavedDataPersists ==
    /\ tr_pc = "scenario" => saved_data.data = Items(saved_log)
    /\ tr_last # NoResult =>
           /\ tr_last.saved = Items(tr_last.known)
           /\ tr_last.sent = _replace_placeholders(tr_last.endpoint, Items(tr_last.known))

\* a step of the second scenario whose endpoint holds the placeholder of a
\* key saved in the first scenario, and was sent with the value in its place
C8_Witness ==
    /\ tr_last # NoResult
    /\ tr_last.scenario = 2
    /\ \E i \in 1..Len(tr_last.known) :
           /\ tr_last.known[i].scenario = 1
           /\ tr_last.known[i].value = PyInt(1)
           /\ tr_last.endpoint = <<"/">> \o placeholder(tr_last.known[i].key)
           /\ tr_last.sent = <<"/", "1">>

\* the text with every placeholder of a saved key replaced by the string
\* form of the key's value, the inserted text being left as it is
RECURSIVE SubstituteOnce(_, _)
SubstituteOnce(text, items) ==
    IF text = <<>> THEN <<>>
    ELSE IF \E i \in 1..Len(items) : startswith(text, placeholder(items[i].key))
        THEN LET i == CHOOSE j \in 1..Len(items) : startswith(text, placeholder(items[j].key))
             IN str(items[i].value)
                \o SubstituteOnce(SubSeq(text, Len(placeholder(items[i].key)) + 1, Len(text)),
                                  items)
    ELSE <<Head(text)>> \o SubstituteOnce(Tail(text), items)

\* C9: the endpoint sent by a step is (a) the step's endpoint unchanged when
\* it holds no placeholder of a saved key, and (b) the step's endpoint with
\* every placeholder of a saved key replaced by the string form of the
\* value last saved under the key.
C9_PlaceholdersReplaced ==
    tr_last # NoResult =>
        /\ (\A i \in 1..Len(tr_last.saved) :
                ~Occurs(tr_last.endpoint, placeholder(tr_last.saved[i].key)))
               => tr_last.sent = tr_last.endpoint
        /\ tr_last.sent = SubstituteOnce(tr_last.endpoint, tr_last.saved)

(***************************************************************************)
(* The claims about the batch response parser.                             *)
(***************************************************************************)
\* C10: for a response text written from N file blocks, the parser returns
\* N translated files in block order, the i-th with the path of the i-th
\* block and the (unescaped) content of the i-th block.
C10_BlocksParsedInOrder ==
    pr_result # NoResult =>
        /\ ~pr_result.raised
        /\ Len(pr_result.translated_files) = Len(pr_blocks)
        /\ \A i \in 1..Len(pr_blocks) :
               /\ i <= Len(pr_result.translated_files)
               /\ pr_result.translated_files[i].path = pr_blocks[i].path
               /\ pr_result.translated_files[i].content
                      = process_file_content(pr_blocks[i].content)

\* the delimiter-escaped form of a content: a backslash is written as two
\* backslashes, a newline as backslash-n, a quote, an apostrophe or a
\* backtick after a backslash
RECURSIVE Escaped(_)
Escaped(c) ==
    IF c = <<>> THEN <<>>
    ELSE (IF Head(c) = Backslash THEN <<Backslash, Backslash>>
          ELSE IF Head(c) = Newline THEN <<Backslash, "n">>
          ELSE IF Head(c) \in {Quote, Apostrophe, Backtick} THEN <<Backslash, Head(c)>>
          ELSE <<Head(c)>>)
         \o Escaped(Tail(c))

\* the content whose escaped form was given to process_file_content
IsEscapedFormOf(c) == ue_content = Escaped(c)

\* C11: process_file_content applied to the delimiter-escaped form of a
\* content c returns c.
C11_UnescapeRoundTrip ==
    ue_result # NoResult =>
        \A n \in 0..MaxContentLen :
            \A c \in [1..n -> ContentChars] :
                IsEscapedFormOf(c) => ue_result.content = c

(***************************************************************************)
(* Further claims about the test executor.                                 *)
(***************************************************************************)
SuccessIsConjunction(r) ==
    r.success = (r.build_success /\ r.service_startup_success /\ r.test_success)

\* C12: every TestExecutionResult (the one execute_full_test returns, on its
\* normal and on its validation-failure path, and the ones the retry
\* orchestrator builds without test cases and on an exception of the
\* executor) has success = build_success and service_startup_success and
\* test_success.
C12_SuccessIsConjunction ==
    /\ ex_result # NoResult => SuccessIsConjunction(ex_result)
    /\ \A has_path \in BOOLEAN :
           \A r \in _test_translated_project(has_path) : SuccessIsConjunction(r)

\* a run whose build failed while the service started and the tests passed
C12_Witness ==
    /\ ex_result # NoResult
    /\ ~ex_result.build_success
    /\ ex_result.service_startup_success
    /\ ex_result.test_success
    /\ ~ex_result.success

\* C13: whatever the shutdown script does (exit 0, another exit code, a
\* timeout, an exception), the run ends normally and the result is the one
\* assembled from the build, the start and the tests alone - the same as
\* after a shutdown that exited with 0.
ResultAfterCleanShutdown ==
    [success |-> ex_build[1] /\ ex_service[1] /\ ex_tests[1],
     build_success |-> ex_build[1],
     service_startup_success |-> ex_service[1],
     test_success |-> ex_tests[1],
     build_errors |-> ex_build[2],
     service_errors |-> ex_service[2],
     test_errors |-> ex_tests[2]]
ResultFields(r) == [f \in DOMAIN ResultAfterCleanShutdown |-> r[f]]
C13_ShutdownOutcomeIgnored ==
    ex_shutdown # "none" =>
        /\ ex_pc = "done"
        /\ ex_result # NoResult
        /\ ResultFields(ex_result) = ResultAfterCleanShutdown
C13_Witness ==
    /\ ex_shutdown \in {"nonzero", "timeout", "exception"}
    /\ ex_pc = "done"
    /\ ex_result # NoResult
    /\ ex_result.success

\* C14: a run whose project path or test-cases file is missing, or whose start
\* or shutdown script is missing or not executable, ends in the validation:
\* it returns success = false with the setup errors, and neither script is
\* ever run.
InvalidSetup(setup) == setup.missing # {} \/ setup.not_executable # {}
ScriptRun == \E i \in DOMAIN ex_calls : ex_calls[i] \in Scripts
C14_InvalidSetupFailsInValidating ==
    (ex_setup # NoSetup /\ InvalidSetup(ex_setup)) =>
        /\ ex_pc = "done"
        /\ ex_result # NoResult
        /\ ~ex_result.success
        /\ ex_result.build_errors # <<>>
        /\ ~ScriptRun

\* C15: the scenario runner is called only after start_service's script
\* exited with 0 and the health poll saw a 200 in time; after any other start
\* the runner is never called, test_success is false and test_errors holds
\* the one message that the tests could not run.
ServiceCameUp == ex_start = [script |-> "ok", health |-> "ready"]
RunnerInvoked == \E i \in DOMAIN ex_calls : ex_calls[i] = "run_tests"
CouldNotRun == <<"Cannot run tests - service failed to start">>
C15_TestsOnlyWhenReady ==
    /\ RunnerInvoked => ServiceCameUp
    /\ (ex_start # NoStart /\ ~ServiceCameUp) =>
          /\ ~RunnerInvoked
          /\ ex_pc \in {"shutdown", "done"}
          /\ ~ex_tests[1] /\ ex_tests[2] = CouldNotRun
          /\ ex_pc = "done" =>
                /\ ex_result # NoResult
                /\ ~ex_result.test_success
                /\ ex_result.test_errors = CouldNotRun
C15_Witness ==
    /\ ex_pc = "done"
    /\ ex_start = [script |-> "ok", health |-> "not_ready"]
    /\ ex_result # NoResult
    /\ ex_result.build_success
    /\ ex_result.test_errors = CouldNotRun

\* C16: an attempt k whose translation raised is recorded as a failed
\* RetryAttempt with exactly one error, of kind unknown_error; no TestExecutor
\* runs for it; and when k <= max_retries the loop goes on to attempt k+1.
Executed(k) == \E j \in DOMAIN rm_executed : rm_executed[j] = k
C16_TranslationFailureRecorded ==
    \A k \in DOMAIN retry_attempts :
        ~retry_attempts[k].translated =>
            /\ retry_attempts[k].attempt_number = k
            /\ ~retry_attempts[k].success
            /\ retry_attempts[k].errors = <<"unknown_error">>
            /\ ~Executed(k)
            /\ k <= max_retries =>
                  \/ Len(retry_attempts) > k
                  \/ rm_pc = "loop" /\ attempt = k
C16_Witness ==
    /\ max_retries = 2
    /\ Len(retry_attempts) = 3
    /\ ~retry_attempts[2].translated
    /\ retry_attempts[1].translated
    /\ retry_attempts[3].translated
    /\ Executed(1) /\ Executed(3)

\* C17: the instructions of every request of an attempt k > 1 carry the
\* feedback rendered from the errors of the attempts 1..k-1, concatenated in
\* attempt order; the instructions of attempt 1 carry no feedback.
RECURSIVE ErrorsOfFirst(_)
ErrorsOfFirst(n) ==
    IF n = 0 THEN <<>> ELSE ErrorsOfFirst(n - 1) \o retry_attempts[n].errors
C17_FeedbackOfAllEarlierAttempts ==
    \A j \in DOMAIN rm_sent :
        LET k == rm_sent[j].attempt
            sent == rm_sent[j].instructions
        IN  /\ k \in 1..Len(retry_attempts)
            /\ sent.base = "translation_instructions"
            /\ IF k = 1
               THEN sent.feedback = NoFeedback
               ELSE sent.feedback = generate_error_feedback(ErrorsOfFirst(k - 1))
C17_Witness ==
    \E j \in DOMAIN rm_sent :
        /\ rm_sent[j].attempt = 3
        /\ retry_attempts[1].errors = <<"unknown_error">>
        /\ Len(retry_attempts[2].errors) = 2
        /\ Len(rm_sent[j].instructions.feedback) = 5

\* C18: without a test-cases path no TestExecutor ever runs (so no script and
\* no scenario), and the first attempt whose translation raised nothing is
\* recorded as a success and is the last attempt of the run.
C18_NoTestCasesTriviallySucceeds ==
    ~test_cases_path =>
        /\ rm_executed = <<>>
        /\ \A k \in DOMAIN retry_attempts :
              retry_attempts[k].translated =>
                  /\ retry_attempts[k].success
                  /\ retry_attempts[k].errors = <<>>
                  /\ k = Len(retry_attempts)
                  /\ rm_pc \in {"final", "done"}
                  /\ overall_success
C18_Witness ==
    /\ ~test_cases_path
    /\ rm_pc = "done"
    /\ Len(retry_attempts) = 2
    /\ ~retry_attempts[1].translated
    /\ retry_attempts[2].translated
    /\ retry_attempts[2].success
    /\ max_retries = 2

\* C19: translate_with_retry never ends by an exception of the translation,
\* the verification or the error analysis; what it returns has a boolean
\* success, attempts = n and a retry_attempts history of n entries numbered
\* 1..n in order, n being the attempts performed; and success is true
\* exactly when the last attempt succeeded.
C19_ResultReflectsAttempts ==
    /\ rm_pc # "raised"
    /\ rm_pc = "done" =>
          /\ rm_result # NoResult
          /\ rm_result.success \in BOOLEAN
          /\ attempt >= 1
          /\ rm_result.attempts = attempt
          /\ Len(rm_result.retry_attempts) = attempt
          /\ \A i \in 1..attempt :
                /\ rm_result.retry_attempts[i].attempt = i
                /\ rm_result.retry_attempts[i].success = retry_attempts[i].success
                /\ rm_result.retry_attempts[i].error_count = Len(retry_attempts[i].errors)
          /\ rm_result.success = rm_result.retry_attempts[attempt].success
C19_Witness ==
    /\ rm_pc = "done"
    /\ rm_result # NoResult
    /\ rm_result.attempts = 3
    /\ rm_result.success
    /\ ~retry_attempts[1].translated
    /\ retry_attempts[2].translated
    /\ ~retry_attempts[2].success

\* C20: the loop ends; the conversation is sent at most max_iterations times,
\* an iteration that raised counting like any other; and a loop that used up
\* its iterations without completing returns success = false with the
\* error that names the iteration limit, which is not the result of a fatal
\* error.
SendsWithinBudget == llm_sends = iteration /\ llm_sends <= max_iterations
LoopRanOut == mcp_pc = "done" /\ conversation_history # <<>> /\ ~mcp_result.success
LimitReported ==
    /\ llm_sends = max_iterations
    /\ mcp_result.error = "did not complete within max_iterations"
    /\ mcp_result.iterations = max_iterations
    /\ mcp_result # FatalResult
    /\ mcp_result.error # FatalResult.error
C20_LoopTerminates ==
    /\ [](SendsWithinBudget /\ (LoopRanOut => LimitReported))
    /\ <>(mcp_pc = "done")
C20_Witness ==
    /\ mcp_pc = "done"
    /\ max_iterations = 2
    /\ llm_sends = 2
    /\ \E i \in 1..Len(conversation_history) : conversation_history[i] = ErrorMessage
    /\ \E i \in 1..Len(conversation_history) :
          conversation_history[i].role = "function_response" /\ conversation_history[i].error
    /\ ~mcp_result.success

\* C21: a tool call whose dispatch raised is answered by exactly one tool
\* result that carries the error and the call's id; the calls after it in the
\* same response are dispatched and answered too; and the run does not end
\* on it: it ends only by completion or by the iteration limit.
DispatchRaised(h, i) == h[i].role = "function_call" /\ h[i].bad_args
ErrorAnswers(h, i) ==
    {j \in 1..Len(h) : h[j].role = "function_response" /\ h[j].id = h[i].id /\ h[j].error}
C21_DispatchErrorAnswered ==
    \A i \in 1..Len(conversation_history) :
        DispatchRaised(conversation_history, i) =>
            /\ Cardinality(AnswersTo(conversation_history, i)) = 1
            /\ AnswersTo(conversation_history, i) = ErrorAnswers(conversation_history, i)
            /\ \A j \in (i + 1)..Len(conversation_history) :
                  conversation_history[j].role = "function_call" =>
                      Cardinality(AnswersTo(conversation_history, j)) = 1
            /\ mcp_result # FatalResult
            /\ (mcp_pc = "done" /\ ~mcp_result.success) => llm_sends = max_iterations
C21_Witness ==
    /\ llm_sends = 2
    /\ \E i \in 1..Len(last_sent) :
          /\ i + 3 <= Len(last_sent)
          /\ DispatchRaised(last_sent, i)
          /\ last_sent[i + 1].role = "function_call" /\ ~last_sent[i + 1].bad_args
          /\ last_sent[i + 2].role = "function_response" /\ last_sent[i + 2].error
          /\ last_sent[i + 2].id = last_sent[i].id
          /\ last_sent[i + 3].role = "function_response" /\ ~last_sent[i + 3].error
          /\ last_sent[i + 3].id = last_sent[i + 1].id

\* C22: run_scenario executes the steps 1..n of the scenario once each and
\* in order, also after a failed step or an exception; it returns one step
\* result per step, in step order; and the scenario is reported successful
\* exactly when every step result is successful.
InOrder(executed) == \A j \in DOMAIN executed : executed[j] = j
ScenarioReturned == su_pc \in {"run", "done"} /\ su_returned # NoResult
C22_EveryStepRunsOnce ==
    /\ InOrder(su_executed)
    /\ su_pc = "scenario" =>
          /\ Len(su_executed) <= su_scenarios[su_i]
          /\ Len(su_step_results) = Len(su_executed)
    /\ ScenarioReturned =>
          /\ Len(su_executed) = su_scenarios[su_i]
          /\ Len(su_returned.step_results) = su_scenarios[su_i]
          /\ \A j \in DOMAIN su_returned.step_results :
                su_returned.step_results[j].step_number = j
          /\ su_returned.total_steps = su_scenarios[su_i]
          /\ su_returned.success =
                (\A j \in DOMAIN su_returned.step_results :
                    su_returned.step_results[j].success)
C22_Witness ==
    /\ ScenarioReturned
    /\ Len(su_returned.step_results) = 2
    /\ "exception" \in DOMAIN su_returned.step_results[1]
    /\ su_returned.step_results[2].success
    /\ ~su_returned.success
    /\ su_returned.passed_steps = 1

\* C23: content_match is the outcome of one content rule, the first one
\* configured in the order expected_response, expected_response_contains,
\* expected_response_type, expected_min_items, expected_items; the fields
\* configured after it do not matter; without any field it is true.
RuleOrder ==
    <<"expected_response", "expected_response_contains", "expected_response_type",
      "expected_min_items", "expected_items">>
Configured(rules) == {i \in DOMAIN RuleOrder : rules[RuleOrder[i]] # None}
FirstConfigured(rules) ==
    CHOOSE i \in Configured(rules) : \A j \in Configured(rules) : i <= j
RuleOutcome(i, data, rules) ==
    CASE i = 1 -> _check_response_content(data, rules.expected_response.some)
      [] i = 2 -> _check_response_contains(data, rules.expected_response_contains.some)
      [] i = 3 -> _check_response_type(data, rules.expected_response_type.some)
      [] i = 4 -> _check_min_items(data, rules.expected_min_items.some)
      [] i = 5 -> _check_exact_items(data, rules.expected_items.some)
C23_FirstRuleOnly ==
    vr_result # NoResult =>
        vr_result.content_match =
            IF Configured(vr_step.rules) = {} THEN TRUE
            ELSE RuleOutcome(FirstConfigured(vr_step.rules), vr_response.data, vr_step.rules)
C23_Witness ==
    /\ vr_result # NoResult
    /\ vr_step.rules.expected_response = None
    /\ vr_step.rules.expected_response_contains = Some(<<"id">>)
    /\ vr_step.rules.expected_response_type = Some("array")
    /\ vr_step.rules.expected_items = Some(1)
    /\ vr_response.data.type = "dict"
    /\ vr_result.content_match
    /\ ~RuleOutcome(3, vr_response.data, vr_step.rules)
    /\ ~RuleOutcome(5, vr_response.data, vr_step.rules)

\* C24: after a successful step that names a key k in save_response_field,
\* saved_data[k] is the id of the response when the response is an object
\* with an id; when the response is an object without id, or no object,
\* saved_data[k] is what it was before the step (also: absent as before).
Lookup(items, k) ==
    IF \E i \in 1..Len(items) : items[i].key = k
    THEN [value |-> items[CHOOSE i \in 1..Len(items) : items[i].key = k].value]
    ELSE [absent |-> TRUE]
HasId(data) == data.type = "dict" /\ "id" \in DOMAIN data.d
C24_SavedIdOrUnchanged ==
    (/\ rq_result # NoResult
     /\ rq_step.save_response_field # ""
     /\ rq_result.result.success) =>
        LET k == rq_step.save_response_field IN
        IF HasId(rq_response.data)
        THEN Lookup(rq_result.saved_data, k) = [value |-> rq_response.data.d["id"]]
        ELSE Lookup(rq_result.saved_data, k) = Lookup(rq_saved, k)

\* C25: a step whose request fails on the network (connection error,
\* timeout) or whose method is none of GET, POST, PUT, DELETE gets a step
\* result with success = false, an error message and no status code; nothing
\* is raised out of run_scenario, and the steps after it are executed.
NoResponse(run) ==
    run.method \notin {"GET", "POST", "PUT", "DELETE"} \/ run.net \in {"connection_error", "timeout"}
FailedWithoutStatus(entry) ==
    /\ ~entry.success
    /\ "error" \in DOMAIN entry
    /\ "status_code" \in DOMAIN entry => entry.status_code = None
    /\ "exception" \notin DOMAIN entry
C25_NoResponseIsStepFailure ==
    /\ su_pc \in {"idle", "setup", "run", "scenario", "done"}
    /\ (su_last # NoResult /\ NoResponse(su_last.run) /\ ~su_last.run.raises) =>
          /\ FailedWithoutStatus(su_last.entry)
          /\ su_pc = "scenario" =>
                /\ su_step_results[Len(su_step_results)] = su_last.entry
                /\ Len(su_step_results) < su_scenarios[su_i] => ENABLED SuiteStep
C25_Witness ==
    /\ ScenarioReturned
    /\ Len(su_returned.step_results) = 2
    /\ FailedWithoutStatus(su_returned.step_results[1])
    /\ su_returned.step_results[2].success

\* C26: the aggregate of run_tests has success = true exactly when every
\* scenario of the suite was run and succeeded, that is when
\* passed_scenarios = total_scenarios; it has success = false when the run
\* stopped before the first scenario (paths, loading, service start,
\* readiness) and when a scenario failed.
StoppedEarly == su_pc = "done" /\ su_scenario_results = <<>> /\ su_i = 0 /\ "error" \in DOMAIN su_result
C26_AggregateSuccess ==
    su_pc = "done" =>
        /\ su_result # NoResult
        /\ StoppedEarly => ~su_result.success
        /\ ~StoppedEarly =>
              /\ su_result.total_scenarios = Len(su_scenarios)
              /\ su_result.success = (su_result.passed_scenarios = su_result.total_scenarios)
              /\ su_result.success =
                    /\ Len(su_scenario_results) = Len(su_scenarios)
                    /\ \A j \in DOMAIN su_scenario_results : su_scenario_results[j].success
              /\ (\E j \in DOMAIN su_scenario_results : ~su_scenario_results[j].success)
                    => ~su_result.success
C26_Witness ==
    /\ su_pc = "done"
    /\ su_result # NoResult
    /\ Len(su_scenarios) = 2
    /\ Len(su_scenario_results) = 2
    /\ ~su_scenario_results[1].success
    /\ su_scenario_results[2].success
    /\ ~su_result.success
    /\ su_result.passed_scenarios = 1


\* the pattern groups in the order of the claim
GroupOrder ==
    <<"build_error", "compile_error", "runtime_error", "dependency_error",
      "syntax_error", "configuration_error">>

\* a pattern of the group of that type is found in the text
GroupMatches(error_type, text) ==
    \E g \in DOMAIN error_patterns :
        /\ error_patterns[g].error_type = error_type
        /\ \E p \in DOMAIN error_patterns[g].patterns :
               search(error_patterns[g].patterns[p], text)

AnalyzedWithoutHint ==
    /\ an_result # NoResult
    /\ "error_output" \in DOMAIN an_input
    /\ an_input.error_type_hint = "none"

\* C27: analyze_error without a hint returns the type of the first group, in
\* the order build, compile, runtime, dependency, syntax, configuration, one
\* of whose patterns is found in the lower-cased text, and unknown_error
\* when no group has such a pattern.
C27_FirstMatchingGroup ==
    AnalyzedWithoutHint =>
        LET text == lower(an_input.error_output)
            matching == {k \in DOMAIN GroupOrder : GroupMatches(GroupOrder[k], text)}
        IN an_result.info.error_type =
               IF matching = {} THEN "unknown_error"
               ELSE GroupOrder[CHOOSE k \in matching : \A m \in matching : k <= m]

\* a text with a pattern of the compile group and one of the syntax group,
\* classified as a compile error
C27_Witness ==
    /\ AnalyzedWithoutHint
    /\ an_input.error_output = <<"S", "y", "n", "t", "a", "x", " ", "e", "r", "r", "o", "r">>
    /\ GroupMatches("compile_error", lower(an_input.error_output))
    /\ GroupMatches("syntax_error", lower(an_input.error_output))
    /\ an_result.info.error_type = "compile_error"

\* the suggestions that mention the port or the availability of the service
PortOrServiceSuggestions ==
    {"Check if the service is running on the correct port",
     "Change the port number in configuration",
     "Stop other services using the same port",
     "Check port configuration and availability"}

\* C28: analyze_error without a hint on the text "Error: connection refused
\* on port 8000" returns a runtime_error with a suggestion that mentions the
\* port or the availability of the service.
C28_ConnectionRefused ==
    (AnalyzedWithoutHint /\ an_input.error_output = ConnectionRefusedText) =>
        /\ an_result.info.error_type = "runtime_error"
        /\ \E i \in DOMAIN an_result.info.suggestions :
               an_result.info.suggestions[i] \in PortOrServiceSuggestions

\* that text analyzed without a hint
C28_Witness ==
    /\ AnalyzedWithoutHint
    /\ an_input.error_output = ConnectionRefusedText
    /\ an_result.info.message = "Runtime error occurred"
    /\ Len(an_result.info.suggestions) = 3

\* the step results of all scenarios of a suite result, in scenario and step
\* order
RECURSIVE AllSteps(_)
AllSteps(scenario_results) ==
    IF scenario_results = <<>> THEN <<>>
    ELSE Head(scenario_results).step_results \o AllSteps(Tail(scenario_results))

FailedStepsOfSuite(test_results) ==
    IF "scenario_results" \in DOMAIN test_results
    THEN SelectSeq(AllSteps(test_results.scenario_results), LAMBDA step : ~step.success)
    ELSE <<>>

AnalyzedSuite == an_result # NoResult /\ "test_results" \in DOMAIN an_input

\* C29: analyze_test_failure returns one ErrorInfo of type test_failure per
\* failed step of the suite result, in scenario and step order, none for a
\* passed step, and the empty list for a suite result whose success is true.
C29_OneErrorPerFailedStep ==
    AnalyzedSuite =>
        LET failed == FailedStepsOfSuite(an_input.test_results) IN
        /\ an_result.errors =
               [i \in DOMAIN failed |-> [error_type |-> "test_failure", context |-> failed[i]]]
        /\ an_input.test_results.success => an_result.errors = <<>>

\* a suite of two scenarios, the first with two failed steps, the second
\* with a passed step and a failed one
C29_Witness ==
    /\ AnalyzedSuite
    /\ "scenario_results" \in DOMAIN an_input.test_results
    /\ LET rs == an_input.test_results.scenario_results IN
       /\ Len(rs) = 2
       /\ Len(rs[1].step_results) = 2 /\ rs[1].passed_steps = 0
       /\ Len(rs[2].step_results) = 2
       /\ rs[2].step_results[1].success /\ ~rs[2].step_results[2].success
    /\ Len(an_result.errors) = 3
    /\ an_result.errors[3].context.step_number = 2


\* the placeholder of the key is left in a string of the data, at any depth
\* of its dicts and lists
RECURSIVE PlaceholderLeft(_, _)
PlaceholderLeft(data, key) ==
    IF "dict" \in DOMAIN data
        THEN \E k \in DOMAIN data.dict : PlaceholderLeft(data.dict[k], key)
    ELSE IF "list" \in DOMAIN data
        THEN \E i \in DOMAIN data.list : PlaceholderLeft(data.list[i], key)
    ELSE IF "str" \in DOMAIN data
        THEN Occurs(data.str, placeholder(key))
    ELSE FALSE

\* C30: the body sent for a step holds no placeholder of a key of saved_data,
\* at any nesting depth: neither in the string values of nested objects nor
\* in the strings inside lists.
C30_ReplacedAtEveryDepth ==
    (rq_result # NoResult /\ rq_result.body # None) =>
        \A i \in DOMAIN rq_saved : ~PlaceholderLeft(rq_result.body, rq_saved[i].key)


\* the files of the tree that can be read as text and lie under no
\* denylisted directory of the tree
ReadableOutsideDenylist(tree) ==
    {f.dirs \o <<f.name>> :
        f \in {g \in tree : g.readable /\ \A i \in DOMAIN g.dirs : g.dirs[i] \notin exclude_dirs}}

\* C31: the request holds exactly the files of the source tree that can be
\* read as text and have no denylisted name among their directories below
\* the source directory; the names of the source path and of the file
\* itself exclude nothing.
C31_ExactlyReadableOutsideDenylist ==
    cf_result # NoResult =>
        cf_result.project_files = ReadableOutsideDenylist(cf_tree)


\* the methods and scripts in ex_calls
Called(name) == \E i \in DOMAIN ex_calls : ex_calls[i] = name

\* C32: when build_project fails (non-zero exit, timeout or exception of
\* the start script), execute_full_test goes on to the shutdown only:
\* start_service, the readiness poll and run_tests are not invoked.
C32_BuildFailureShortCircuits ==
    (Called("build_project") /\ ~ex_build[1]) =>
        ~Called("start_service") /\ ~Called("health") /\ ~Called("run_tests")


\* C33: when run_tests has returned, every invocation of start_service,
\* also one that reported a failure or a timeout of the script, is followed
\* by an invocation of shutdown_service.
C33_ShutdownAfterEveryStart ==
    su_pc = "done" =>
        \A i \in DOMAIN su_calls :
            su_calls[i] = "start_service" =>
                \E j \in (i + 1)..Len(su_calls) : su_calls[j] = "shutdown_service"


\* C34: in a run whose runner reached its scenario steps, the runner did
\* not invoke the start script or the shutdown script between the readiness
\* poll of start_service and its first step.
C34_NoRestartBeforeFirstStep ==
    (Called("run_tests") /\ ex_tests[3] \in {"passed", "failed"}) =>
        \A i \in DOMAIN ex_runner :
            ex_runner[i] \notin {"start_service", "shutdown_service"}


\* the setup is valid for the executor and its start script can be run, so
\* that the run can reach the tests
TestingReachable ==
    /\ ps_result # NoResult
    /\ ps_result.setup_valid
    /\ ps_disk.scripts[<<"start.sh", ps_result.start_script>>] = "executable"

\* C35: on a disk whose setup validate_setup accepts, the runner of the
\* tests accepts the setup too, and the scripts it runs are the ones
\* _find_script found.
C35_RunnerAcceptsValidatedSetup ==
    TestingReachable =>
        /\ ps_result.paths_valid
        /\ ps_result.runner_scripts = ps_result.start_script
        /\ ps_result.runner_scripts = ps_result.shutdown_script


BuildTimedOut == ex_built = "timeout"
StartTimedOut == ex_start # NoStart /\ ex_start.script = "timeout"

\* C36: a build or start script that exceeds its timeout makes its stage
\* fail with the timeout message in the stage's error list; no exception
\* leaves execute_full_test, the run goes on to its end and returns a
\* TestExecutionResult that holds the failure.
C36_TimeoutIsStageFailure ==
    /\ BuildTimedOut => ex_build = <<FALSE, <<"Build timed out after 5 minutes">>>>
    /\ StartTimedOut => ex_service = <<FALSE, <<"Service startup timed out">>>>
    /\ (BuildTimedOut \/ StartTimedOut) =>
          /\ ex_pc # "raised"
          /\ ex_pc # "done" => ENABLED ExecNext
          /\ ex_pc = "done" =>
                /\ ex_result # NoResult
                /\ ~ex_result.success
                /\ BuildTimedOut =>
                      /\ ~ex_result.build_success
                      /\ ex_result.build_errors = <<"Build timed out after 5 minutes">>
                /\ StartTimedOut =>
                      /\ ~ex_result.service_startup_success
                      /\ ex_result.service_errors = <<"Service startup timed out">>

\* a run whose build and whose start both timed out, returned
C36_Witness ==
    /\ BuildTimedOut /\ StartTimedOut
    /\ ex_pc = "done"
    /\ ex_result # NoResult
    /\ ex_result.build_errors = <<"Build timed out after 5 minutes">>
    /\ ex_result.service_errors = <<"Service startup timed out">>


\* what holds of the poll at every moment
PollSafe ==
    /\ wt_last = "200" <=> (wt_result = [returned |-> TRUE])
    /\ wt_last = "200" => wt_pc = "done"
    /\ wt_result = [returned |-> FALSE] =>
          wt_elapsed >= WaitTimeout /\ wt_last # "200"
    /\ wt_last \in FailedRequests => wt_pc # "raised"
    /\ wt_pc = "check" => wt_elapsed < WaitTimeout
    /\ wt_pc \in {"done", "raised"} <=> ~ENABLED WaitNext

\* C37: the readiness poll ends; it returns true at the first health check
\* answered with status 200 and never without one, returns false only when
\* the timeout has elapsed without a 200, and goes on polling after a
\* failed health request.
C37_PollTerminates ==
    /\ []PollSafe
    /\ <>(wt_pc \in {"done", "raised"})

\* a poll that returned true after a failed health request and at least two
\* other checks
C37_Witness ==
    /\ wt_pc = "done"
    /\ wt_result = [returned |-> TRUE]
    /\ wt_failed
    /\ wt_checks >= 3
    /\ wt_elapsed > SleepInterval


\* C38: in retry_attempts a failed attempt holds at least one ErrorInfo and
\* a successful attempt holds none, and the feedback in the instructions of
\* a retry is never the text rendered for an empty error list.
C38_FailedAttemptsCarryErrors ==
    /\ \A k \in DOMAIN retry_attempts :
           retry_attempts[k].success <=> retry_attempts[k].errors = <<>>
    /\ \A j \in DOMAIN rm_sent :
           rm_sent[j].attempt > 1 =>
               /\ rm_sent[j].instructions.feedback # NoFeedback
               /\ rm_sent[j].instructions.feedback # <<[line |-> "No errors detected."]>>

\* a retry sent after a tested attempt that failed, and ended by a
\* successful attempt without errors
C38_Witness ==
    /\ Len(retry_attempts) = 2
    /\ retry_attempts[1].translated /\ ~retry_attempts[1].success
    /\ Len(retry_attempts[1].errors) >= 2
    /\ retry_attempts[2].success /\ retry_attempts[2].errors = <<>>
    /\ \E j \in DOMAIN rm_sent :
           rm_sent[j].attempt = 2 /\ Len(rm_sent[j].instructions.feedback) >= 4


\* the keys of a dict
KeysOf(items) == {items[i].key : i \in DOMAIN items}

\* a step of a scenario is executed
StepExecuted == tr_pc = "scenario" /\ steps_done' = steps_done + 1

\* C39: a step whose result is a failure (status mismatch, content mismatch,
\* no response, exception) leaves saved_data as it was, and no step of the
\* run takes a key out of saved_data.
C39_SavedDataOnlyGrows ==
    [][/\ KeysOf(global_saved_data) \subseteq KeysOf(global_saved_data')
       /\ StepExecuted =>
             /\ KeysOf(saved_data.data) \subseteq KeysOf(saved_data'.data)
             /\ ~tr_last'.result.success =>
                   /\ saved_data' = saved_data
                   /\ global_saved_data' = global_saved_data]_vars

\* a step that asked to save under a key, failed on its content rule and
\* left the dict, which holds that key, as it was
C39_Witness ==
    /\ tr_last # NoResult
    /\ "content_match" \in DOMAIN tr_last.result
    /\ ~tr_last.result.content_match
    /\ ~tr_last.result.success
    /\ tr_last.result.status_code = 200
    /\ tr_last.result.saved_field = "a"
    /\ "a" \in KeysOf(tr_last.saved)
    /\ saved_data.data = tr_last.saved

\* C40: the Test Executor runs for an attempt only if that attempt's
\* translation wrote at least one translated file to the output tree; a
\* response with zero translated files, or one whose files all failed to
\* write, is not verified
C40_VerifiesOnlyWrittenTranslations ==
    \A j \in DOMAIN rm_executed :
        (j = Len(rm_executed) /\ rm_executed[j] = attempt) =>
            /\ translation_result # NoResult
            /\ translation_result.success
            /\ translation_result.files_translated >= 1
            /\ translation_result.files_written >= 1

====
